---- MODULE Spec2Model ----
(***************************************************************************)
(* Model of the voice-agent session orchestrators of voxionAIBot:          *)
(*   - PlaygroundService / PlaygroundGateway  (WebSocket path /playground) *)
(*   - TwilioWebSocketGateway                 (WebSocket path /call)       *)
(* Each handler of the source is one action; every `await` on a provider   *)
(* call (Deepgram connect, LLM generation, TTS, ffmpeg) is a suspension    *)
(* point, and the continuation after it is a separate action.              *)
(* The two gateways share no state, so a behaviour exercises one of them:  *)
(* `path` is the WebSocket path the connections of the behaviour use.      *)
(***************************************************************************)
EXTENDS Integers, Sequences, FiniteSets, Bags, TLC

\* ---------------------------------------------------------------- bounds
\* PlaygroundSession objects created in a behaviour
MaxSessions == 1
\* activations of the playground handlers suspended at an await
MaxTurns == 2
\* audio chunks one streaming synthesis delivers at most
MaxChunks == 1
\* ActiveCall objects created in a behaviour
MaxCalls == 2
\* media frames received in a behaviour
MaxFrames == 2
\* media frames received in the behaviours that fill the pending buffer
MaxBurst == 402
\* maxBuf of an ActiveCall (frames)
maxBuf == 400
\* the keepalive frame of startSilence: Buffer.alloc(8192)
silenceBytes == 8192
\* the period of the keepalive interval, 5000 ms, in time units of one second
SilencePeriod == 5
\* the sample rate of the client's audio (direct = sampleRate === 48000)
ClientRate == 48000
\* activations of onTranscript suspended at an await
MaxCallTurns == 2
\* buffers written to one recording
MaxWrites == 3
\* tokens of a generated reply
MaxReplyLen == 3
\* consecutive turns of the session whose replies are post-processed
MaxReplyTurns == 2
\* the bytes of the buffers passed to writeMulaw in one behaviour
MaxMulawLen == 1
\* chunks read from the response body of one streaming synthesis
MaxStreamChunks == 2
\* the lengths (bytes) of the PCM buffers written to a recording
WriteLens == {0, 2, 4, 320}

\* client connections (WebSocket objects; for /call also the streamSid)
Conns == {1}

VARIABLES
  path,        \* "playground" | "call": the gateway the connections belong to
  conn,        \* conn[c]: "none" | "open" | "closed", the client transport
  sessions,    \* PlaygroundService.sessions : client -> session object (0 = absent)
  sess,        \* the PlaygroundSession objects ever created, by object id
  calls,       \* TwilioWebSocketGateway.calls : streamSid -> call object (0 = absent)
  wavWriters,  \* TwilioWebSocketGateway.wavWriters : streamSid -> writer (0 = absent)
  call,        \* the ActiveCall objects ever created (with their WavWriter)
  turns,       \* bag of the handler activations that are suspended at an await
  out,         \* what the last handler step did: its name and its outputs
  wav,         \* a PlaygroundWavWriter: its fields and the file it writes
  bot,         \* the replies of one session: its hasGreeted flag, the text
               \* generation returned last and the text sent for it
  pcm          \* a telephony recording: the mu-law bytes passed to writeMulaw
               \* and the PCM16 samples written for them

vars == <<path, wav, bot, pcm, conn, sessions, sess, calls, wavWriters, call, turns, out>>

\* ------------------------------------------------------------ observation
\* op: the handler step; conn: the client (or streamSid) it ran for; msgs: the
\* messages it sent on the client transport, in order; wrote: it called write
\* on the session's recording sink; dg: the frames it passed to send() of the
\* transcription socket, in order; uncaught: an exception or a rejected promise
\* left the handler without being caught; wfail: the write of the caller's
\* frame to the recording threw
Out(op, c, msgs, wrote) ==
  [op |-> op, conn |-> c, msgs |-> msgs, wrote |-> wrote, dg |-> <<>>,
   uncaught |-> FALSE, wfail |-> FALSE]

\* the observation of a step that handles caller audio
OutAudio(op, c, msgs, wrote, dg) ==
  [op |-> op, conn |-> c, msgs |-> msgs, wrote |-> wrote, dg |-> dg,
   uncaught |-> FALSE, wfail |-> FALSE]

\* the observation of a step that ends with a rejection nobody handles
OutUncaught(op, c) ==
  [op |-> op, conn |-> c, msgs |-> <<>>, wrote |-> FALSE, dg |-> <<>>,
   uncaught |-> TRUE, wfail |-> FALSE]

\* the observation of a step in which the write to the recording threw
OutWriteFailed(op, c, msgs, dg) ==
  [op |-> op, conn |-> c, msgs |-> msgs, wrote |-> FALSE, dg |-> dg,
   uncaught |-> FALSE, wfail |-> TRUE]

\* ---------------------------------------------------- PlaygroundWavWriter
\* new PlaygroundWavWriter(filename): the file is open and holds the 44-byte
\* header of writeHeader with both size fields zero.
\*   fd        "open" | "closed"           dataSize  the field this.dataSize
\*   data      the lengths of the buffers in the file after the header
\*   fileSize, dataField: the 32-bit header fields at offsets 4 and 40
\*   raised    the last call threw
NewWavWriter ==
  [fd |-> "open", dataSize |-> 0, data |-> <<>>,
   fileSize |-> 0, dataField |-> 0, raised |-> FALSE]

\* the total of a sequence of buffer lengths
SumLen(q) ==
  LET S[i \in 0..Len(q)] == IF i = 0 THEN 0 ELSE S[i - 1] + q[i]
  IN S[Len(q)]

\* header.writeUInt32LE(v, offset) throws unless 0 <= v <= 4294967295; the
\* sizes of the recordings written here stay below the upper limit
FitsUInt32(v) == v >= 0

\* a writePCM16 that appends the buffer without counting its bytes
WritePCM16NoCount(w, len, ok) ==
  IF w.fd = "open" /\ ok
  THEN [w EXCEPT !.data = Append(@, len), !.raised = FALSE]
  ELSE [w EXCEPT !.raised = TRUE]

\* PlaygroundWavWriter.writePCM16(buffer) for a buffer of len bytes; ok =
\* FALSE when fs.writeSync throws (it also throws on a closed descriptor)
WritePCM16(w, len, ok) ==
  IF w.fd = "open" /\ ok
  THEN [w EXCEPT !.data = Append(@, len), !.dataSize = @ + len,
                 !.raised = FALSE]
  ELSE [w EXCEPT !.raised = TRUE]

\* PlaygroundWavWriter.end(): rewrites the header at position 0 with
\* fileSize = dataSize + 36 and dataSize, then closes the descriptor
WavEnd(w) ==
  IF w.fd = "open" /\ FitsUInt32(w.dataSize + 36)
  THEN [w EXCEPT !.fileSize = w.dataSize + 36, !.dataField = w.dataSize,
                 !.fd = "closed", !.raised = FALSE]
  ELSE [w EXCEPT !.raised = TRUE]

\* one call of writePCM16 on the writer
WavWrite(len, ok) ==
  /\ path = "wav" /\ wav.fd = "open"
  /\ Len(wav.data) < MaxWrites
  /\ wav' = WritePCM16(wav, len, ok)
  /\ out' = Out("writePCM16", 0, <<>>, ok)
  /\ UNCHANGED <<path, bot, pcm, conn, sessions, sess, calls, wavWriters, call, turns>>

\* the call of end() that finalizes the recording
WavClose ==
  /\ path = "wav" /\ wav.fd = "open"
  /\ wav' = WavEnd(wav)
  /\ out' = Out("end", 0, <<>>, FALSE)
  /\ UNCHANGED <<path, bot, pcm, conn, sessions, sess, calls, wavWriters, call, turns>>

\* ------------------------------------------------- mu-law decoding (WavWriter)
\* const MULAW_BIAS = 0x84
MULAW_BIAS == 132

\* the bytes a Buffer holds
Bytes == 0..255

\* the recording of a telephony stream before anything is written to it
NewRecording == [bytes |-> <<>>, samples |-> <<>>]

\* ~v of a 32-bit integer
BitNot(v) == -v - 1

\* v & (2^n - 1) and v >> n, v << n of a small integer
LowBits(v, n) == v % (2 ^ n)
ShiftRight(v, n) == v \div (2 ^ n)
ShiftLeft(v, n) == v * (2 ^ n)

\* if (sample > 32767) sample = 32767; if (sample < -32768) sample = -32768
Clamp16(v) == IF v > 32767 THEN 32767 ELSE IF v < -32768 THEN -32768 ELSE v

\* a sample computed without taking the bias off again
muLawSampleNoBias(b) ==
  LET byteVal == LowBits(BitNot(b), 8)
      sign == IF LowBits(ShiftRight(byteVal, 7), 1) = 1 THEN -1 ELSE 1
      exponent == LowBits(ShiftRight(byteVal, 4), 3)
      mantissa == LowBits(byteVal, 4) IN
  ShiftLeft(ShiftLeft(mantissa, 3) + MULAW_BIAS, exponent) * sign

\* muLawDecodeByte up to the clamp: the value of sample after
\* sample = (sample - MULAW_BIAS) * sign
muLawSample(b) ==
  LET byteVal == LowBits(BitNot(b), 8)
      sign == IF LowBits(ShiftRight(byteVal, 7), 1) = 1 THEN -1 ELSE 1
      exponent == LowBits(ShiftRight(byteVal, 4), 3)
      mantissa == LowBits(byteVal, 4)
      sample == ShiftLeft(ShiftLeft(mantissa, 3) + MULAW_BIAS, exponent) IN
  (sample - MULAW_BIAS) * sign

\* a decoder that shifts by one position more and does not clamp
muLawDecodeByteShifted(b) == 2 * muLawSample(b) + MULAW_BIAS

\* a decoder that does not invert the bits of the byte
muLawDecodeByteNoInvert(b) == Clamp16(muLawSample(255 - b))

\* muLawDecodeByte(byteVal)
muLawDecodeByte(b) == Clamp16(muLawSample(b))

\* writer.writeMulaw(buffer) for a buffer of one byte:
\* decodeMulawBufferToPCM16Buffer writes one PCM16 sample for it
WriteMulaw(b) ==
  /\ path = "mulaw" /\ Len(pcm.bytes) < MaxMulawLen
  /\ pcm' = [bytes |-> Append(pcm.bytes, b),
             samples |-> Append(pcm.samples, muLawDecodeByte(b))]
  /\ out' = Out("writeMulaw", 0, <<>>, TRUE)
  /\ UNCHANGED <<path, wav, bot, conn, sessions, sess, calls, wavWriters, call, turns>>

\* ----------------------------------------------------- greeting stripping
\* a session that has not replied yet (hasGreeted: false of startSession)
NewBot == [hasGreeted |-> FALSE, turn |-> 0, raw |-> <<>>, text |-> <<>>]

\* A reply text as a sequence of tokens: "W" the phrase 'welcome to axion
\* hotel', "H" the word 'hello', "G" 'good morning' (afternoon, evening),
\* "." a full stop or exclamation mark, "?" a question mark, "x" other
\* words, " " white space
ReplyTokens == {"W", "H", "G", ".", "?", "x", " "}

\* String.prototype.trim on a text given as a sequence of characters or tokens
\* (" " is white space)
RECURSIVE Trim(_)
Trim(t) ==
  IF t = <<>> THEN t
  ELSE IF Head(t) = " " THEN Trim(Tail(t))
  ELSE IF t[Len(t)] = " " THEN Trim(SubSeq(t, 1, Len(t) - 1))
  ELSE t
Greetings == {"W", "H", "G"}

\* the texts generation may return, up to MaxReplyLen tokens
Replies == UNION {[1..n -> ReplyTokens] : n \in 0..MaxReplyLen}

\* text.replace(/<g>.*?(\.|!)/gi, ''): every occurrence of the phrase g is
\* removed together with the text up to the next "." or "!"; an occurrence
\* that no "." or "!" follows is not matched
RECURSIVE StripThrough(_, _)
StripThrough(q, g) ==
  IF q = <<>> THEN q
  ELSE LET stops == {j \in 2..Len(q) : q[j] = "."} IN
       IF Head(q) = g /\ stops # {}
       THEN LET j == CHOOSE m \in stops : \A n \in stops : m <= n
            IN StripThrough(SubSeq(q, j + 1, Len(q)), g)
       ELSE <<Head(q)>> \o StripThrough(Tail(q), g)

\* the text q without the white space it starts with
RECURSIVE TrimStart(_)
TrimStart(q) ==
  IF q # <<>> /\ Head(q) = " " THEN TrimStart(Tail(q)) ELSE q

\* text.replace(/hello[!.,]?\s*/i, ''): without the g flag only the first
\* 'hello' is removed, with the punctuation mark that follows it directly
\* and the white space after that
StripHello(q) ==
  LET at == {i \in 1..Len(q) : q[i] = "H"} IN
  IF at = {} THEN q
  ELSE LET i == CHOOSE m \in at : \A n \in at : m <= n
           e == IF i < Len(q) /\ q[i + 1] = "." THEN i + 1 ELSE i
       IN SubSeq(q, 1, i - 1) \o TrimStart(SubSeq(q, e + 1, Len(q)))

\* "Sure, could you please provide more details?"
DefaultReply == <<"x", "?">>

\* the three replace calls of handleDeepgramTranscript, in the code's order
StripGreetings(raw) ==
  StripThrough(StripHello(StripThrough(raw, "W")), "G")

\* a reply that is sent as it is after trimming, also when nothing is left
BotReplyNoDefault(raw, greeted) ==
  Trim(IF greeted THEN StripGreetings(raw) ELSE raw)

\* handleDeepgramTranscript between generateResponse and the bot_text
\* message: the greeting phrases are stripped when the session has greeted
\* before, the text is trimmed, and an empty result is replaced by the
\* default reply
BotReply(raw, greeted) ==
  LET botReply == Trim(IF greeted THEN StripGreetings(raw) ELSE raw)
  IN IF botReply = <<>> THEN DefaultReply ELSE botReply

\* one turn of the session: generation returned raw; the text is sent as
\* bot_text and passed to streamBotResponse
ReplyTurn(raw) ==
  /\ path = "reply" /\ bot.turn < MaxReplyTurns
  /\ bot' = [hasGreeted |-> TRUE, turn |-> bot.turn + 1, raw |-> raw,
             text |-> BotReply(raw, bot.hasGreeted)]
  /\ out' = Out("GenerationDone", 0, <<"bot_text">>, FALSE)
  /\ UNCHANGED <<path, wav, pcm, conn, sessions, sess, calls, wavWriters, call, turns>>

\* ------------------------------------------------------ PlaygroundService
\* the object startSession stores in the registry (interface PlaygroundSession)
\* with the state of the resources it owns; dgCloses, kills and wavEnds count
\* the calls of dgSocket.close(), ffmpeg.kill() and wavWriter.end(); released
\* lists the release steps endSession performed, in the order of the code;
\* timer is the time since the keepalive interval was started or last fired,
\* idle the time the open transcription socket has been sent nothing;
\* recv counts the audio frames handleAudio received for the session (frame n
\* is the n-th), rec lists the caller frames appended to the recording, sent
\* the frames passed to dgSocket.send and pipe the frames written to the
\* transcoder's input that it has not put out yet
PlaygroundSession(c, direct) ==
  [client |-> c, dgSocket |-> "connecting", directStream |-> direct,
   ffmpeg |-> IF direct THEN "none" ELSE "running",
   silenceInterval |-> "active", wavWriter |-> "open",
   hasGreeted |-> FALSE, isProcessing |-> FALSE, audioChunks |-> <<>>,
   dgCloses |-> 0, wavEnds |-> 0, kills |-> 0, released |-> <<>>,
   timer |-> 0, idle |-> 0,
   recv |-> 0, rec |-> <<>>, sent |-> <<>>, pipe |-> <<>>]

\* startSession that spawns the transcoder for every session
startSessionAlwaysTranscode(c, sampleRate, ok) ==
  /\ UNCHANGED <<path, wav, bot, pcm, conn, calls, wavWriters, call, turns>>
  /\ IF ok
     THEN /\ Len(sess) < MaxSessions
          /\ sess' = Append(sess, [PlaygroundSession(c, sampleRate = 48000)
                                     EXCEPT !.ffmpeg = "running"])
          /\ sessions' = [sessions EXCEPT ![c] = Len(sess) + 1]
          /\ out' = Out("startSession", c, <<"registered">>, FALSE)
     ELSE /\ UNCHANGED <<sessions, sess>>
          /\ out' = Out("startSession", c, <<"error">>, FALSE)

\* PlaygroundService.startSession(client, sampleRate); ok = FALSE when
\* createLive throws (the catch block answers with an error message)
startSession(c, sampleRate, ok) ==
  /\ UNCHANGED <<path, wav, bot, pcm, conn, calls, wavWriters, call, turns>>
  /\ IF ok
     THEN /\ Len(sess) < MaxSessions
          /\ sess' = Append(sess, PlaygroundSession(c, sampleRate = 48000))
          /\ sessions' = [sessions EXCEPT ![c] = Len(sess) + 1]
          /\ out' = Out("startSession", c, <<"registered">>, FALSE)
     ELSE /\ UNCHANGED <<sessions, sess>>
          /\ out' = Out("startSession", c, <<"error">>, FALSE)

\* endSession without `this.sessions.delete(client)`: the entry stays, so a
\* second call finds the session again
EndSessionNoDelete(S, c) ==
  LET o == S.sessions[c] IN
  IF o = 0 THEN S
  ELSE [sessions |-> S.sessions,
        sess |-> [S.sess EXCEPT ![o] =
          [@ EXCEPT !.ffmpeg = IF @ = "none" THEN "none" ELSE "killed",
                    !.kills = IF S.sess[o].ffmpeg = "none" THEN @ ELSE @ + 1,
                    !.dgSocket = "closed",
                    !.dgCloses = @ + 1,
                    !.silenceInterval = "cleared",
                    !.wavWriter = "ended",
                    !.wavEnds = @ + 1]]]

\* endSession that clears the keepalive interval before it stops the
\* transcoder and closes the socket
EndSessionTimerFirst(S, c) ==
  LET o == S.sessions[c] IN
  IF o = 0 THEN S
  ELSE [sessions |-> [S.sessions EXCEPT ![c] = 0],
        sess |-> [S.sess EXCEPT ![o] =
          [@ EXCEPT !.ffmpeg = IF @ = "none" THEN "none" ELSE "killed",
                    !.kills = IF S.sess[o].ffmpeg = "none" THEN @ ELSE @ + 1,
                    !.dgSocket = "closed",
                    !.dgCloses = @ + 1,
                    !.silenceInterval = "cleared",
                    !.wavWriter = "ended",
                    !.wavEnds = @ + 1,
                    !.released = @ \o <<"timer">> \o
                       (IF S.sess[o].ffmpeg = "none" THEN <<>> ELSE <<"transcoder">>)
                       \o <<"bridge", "writer", "entry">>]]]

\* PlaygroundService.endSession(client) as a function of the registry and the
\* session objects: S = [sessions |-> ..., sess |-> ...]
EndSession(S, c) ==
  LET o == S.sessions[c] IN
  IF o = 0 THEN S
  ELSE [sessions |-> [S.sessions EXCEPT ![c] = 0],
        sess |-> [S.sess EXCEPT ![o] =
          [@ EXCEPT !.ffmpeg = IF @ = "none" THEN "none" ELSE "killed",
                    !.kills = IF S.sess[o].ffmpeg = "none" THEN @ ELSE @ + 1,
                    !.dgSocket = "closed",
                    !.dgCloses = @ + 1,
                    !.silenceInterval = "cleared",
                    !.wavWriter = "ended",
                    !.wavEnds = @ + 1,
                    !.released = @ \o
                       (IF S.sess[o].ffmpeg = "none" THEN <<>> ELSE <<"transcoder">>)
                       \o <<"bridge", "timer", "writer", "entry">>]]]

PgState == [sessions |-> sessions, sess |-> sess]

endSession(c) ==
  LET S == EndSession(PgState, c) IN
  /\ sessions' = S.sessions
  /\ sess' = S.sess
  /\ out' = Out("endSession", c, <<>>, FALSE)
  /\ UNCHANGED <<path, wav, bot, pcm, conn, calls, wavWriters, call, turns>>

\* a frame passed to send() of the playground's transcription socket: a chunk
\* of caller audio, or the keepalive frame of silenceBytes zero bytes
AudioFrame == [kind |-> "audio", zeros |-> 0]
SilenceFrame == [kind |-> "silence", zeros |-> silenceBytes]

\* a frame is put at the front of what was delivered before
DeliverFirst(q, f) == <<f>> \o q

\* socket.send(frame), writer.write(frame), stdin.write(frame): the frame
\* follows everything the same handler path delivered before
Deliver(q, f) == Append(q, f)

\* the session object after handleAudio has handled frame f for it: wok =
\* FALSE when wavWriter.writePCM16 throws (caught and logged); a direct
\* stream sends the frame when the socket is OPEN, the other streams write
\* it to the transcoder's stdin while that is writable
AudioHandled(x, wok) ==
  LET f == x.recv + 1
      sends == x.directStream /\ x.dgSocket = "open"
      pipes == ~x.directStream /\ x.ffmpeg = "running" IN
  [x EXCEPT !.recv = f,
            !.rec = IF x.wavWriter # "none" /\ wok THEN Deliver(@, f) ELSE @,
            !.sent = IF sends THEN Deliver(@, f) ELSE @,
            !.pipe = IF pipes THEN Deliver(@, f) ELSE @,
            !.idle = IF sends THEN 0 ELSE @]

\* what handleAudio reports for a frame handled on session object x
AudioOut(c, x, msgs, wok) ==
  LET dg == IF x.directStream /\ x.dgSocket = "open"
            THEN <<AudioFrame>> ELSE <<>> IN
  IF x.wavWriter # "none" /\ ~wok
  THEN OutWriteFailed("handleAudio", c, msgs, dg)
  ELSE OutAudio("handleAudio", c, msgs, x.wavWriter # "none", dg)

\* handleAudio that returns at once when the client has no session
handleAudioDrop(c, ok, wok) ==
  LET o == sessions[c] IN
  /\ UNCHANGED <<path, wav, bot, pcm, conn, calls, wavWriters, call, turns>>
  /\ IF o # 0
     THEN /\ UNCHANGED sessions
          /\ sess' = [sess EXCEPT ![o] = AudioHandled(@, wok)]
          /\ out' = AudioOut(c, sess[o], <<>>, wok)
     ELSE /\ UNCHANGED <<sessions, sess>>
          /\ out' = OutAudio("handleAudio", c, <<>>, FALSE, <<>>)

\* handleAudio that ignores the frames of a session whose turn is in progress
handleAudioWhenIdle(c, ok, wok) ==
  LET o == sessions[c] IN
  /\ UNCHANGED <<path, wav, bot, pcm, conn, calls, wavWriters, call, turns>>
  /\ IF o # 0 /\ ~sess[o].isProcessing
     THEN /\ UNCHANGED sessions
          /\ sess' = [sess EXCEPT ![o] = AudioHandled(@, wok)]
          /\ out' = AudioOut(c, sess[o], <<>>, wok)
     ELSE /\ UNCHANGED <<sessions, sess>>
          /\ out' = OutAudio("handleAudio", c, <<>>, FALSE, <<>>)

\* PlaygroundService.handleAudio(client, data): without a session it first
\* runs startSession(client, 48000) (ok as there); then the frame is written
\* to the recording (wok: the write succeeds) and passed on for transcription
handleAudio(c, ok, wok) ==
  LET o == sessions[c] IN
  /\ UNCHANGED <<path, wav, bot, pcm, conn, calls, wavWriters, call, turns>>
  /\ IF o # 0
     THEN /\ UNCHANGED sessions
          /\ sess' = [sess EXCEPT ![o] = AudioHandled(@, wok)]
          /\ out' = AudioOut(c, sess[o], <<>>, wok)
     ELSE IF ok
     THEN /\ Len(sess) < MaxSessions
          /\ sess' = Append(sess, AudioHandled(PlaygroundSession(c, TRUE), wok))
          /\ sessions' = [sessions EXCEPT ![c] = Len(sess) + 1]
          /\ out' = AudioOut(c, PlaygroundSession(c, TRUE), <<"registered">>, wok)
     ELSE /\ UNCHANGED <<sessions, sess>>
          /\ out' = OutAudio("handleAudio", c, <<"error">>, FALSE, <<>>)

\* the 'data' callback of the transcoder's stdout (createFfmpegProcess): the
\* oldest frame written to its stdin comes out resampled and is sent when
\* the socket is OPEN
FfmpegData(o) ==
  LET f == Head(sess[o].pipe)
      open == sess[o].dgSocket = "open" IN
  /\ sess[o].ffmpeg = "running" /\ sess[o].pipe # <<>>
  /\ sess' = [sess EXCEPT ![o] =
        [@ EXCEPT !.pipe = Tail(@),
                  !.sent = IF open THEN Deliver(@, f) ELSE @,
                  !.idle = IF open THEN 0 ELSE @]]
  /\ out' = OutAudio("ffmpegData", sess[o].client, <<>>, FALSE,
                     IF open THEN <<AudioFrame>> ELSE <<>>)
  /\ UNCHANGED <<path, wav, bot, pcm, conn, sessions, calls, wavWriters, call, turns>>

\* an activation of an async handler that is suspended at an await:
\*   kind   "voice" handleDeepgramTranscript, "text" handleUserText,
\*          "save" saveBotAudioToFile, "call" onTranscript
\*   sess   the session object the activation holds a reference to
\*   pc     the call it awaits: "gen" generateResponse, "stream"
\*          streamTextToAudioFast, "fallback" / "tts" textToAudio, "save"
\*          mulawToPCM16
\*   chunks the audio chunks its stream delivered so far; audio: the audio
\*          messages it sent to the client; fallbacks: the full-buffer
\*          synthesis attempts it made after a failed stream
\*   reads  for each chunk its stream delivered, whether it was non-empty;
\*          log: the chunks sent to the client as bot_audio_chunk messages,
\*          in the order of the send calls
Turn(kind, c, o, pc) ==
  [kind |-> kind, conn |-> c, sess |-> o, pc |-> pc,
   chunks |-> 0, audio |-> 0, fallbacks |-> 0, reads |-> <<>>, log |-> <<>>]

One(t) == SetToBag({t})
Active == BagToSet(turns)

\* handleDeepgramTranscript without the `if (session.isProcessing) return`
handleDeepgramTranscriptNoGuard(c) ==
  LET o == sessions[c] IN
  /\ UNCHANGED <<path, wav, bot, pcm, conn, sessions, calls, wavWriters, call>>
  /\ IF o = 0
     THEN /\ UNCHANGED <<sess, turns>>
          /\ out' = Out("handleDeepgramTranscript", c, <<>>, FALSE)
     ELSE /\ BagCardinality(turns) < MaxTurns
          /\ sess' = [sess EXCEPT ![o].isProcessing = TRUE]
          /\ turns' = turns (+) One(Turn("voice", c, o, "gen"))
          /\ out' = Out("handleDeepgramTranscript", c, <<"transcript">>, FALSE)

\* PlaygroundService.handleDeepgramTranscript(client, transcript), up to the
\* await of llm.generateResponse
handleDeepgramTranscript(c) ==
  LET o == sessions[c] IN
  /\ UNCHANGED <<path, wav, bot, pcm, conn, sessions, calls, wavWriters, call>>
  /\ IF o = 0 \/ sess[o].isProcessing
     THEN /\ UNCHANGED <<sess, turns>>
          /\ out' = Out("handleDeepgramTranscript", c, <<>>, FALSE)
     ELSE /\ BagCardinality(turns) < MaxTurns
          /\ sess' = [sess EXCEPT ![o].isProcessing = TRUE]
          /\ turns' = turns (+) One(Turn("voice", c, o, "gen"))
          /\ out' = Out("handleDeepgramTranscript", c, <<"transcript">>, FALSE)

\* PlaygroundService.handleUserText(client, text), up to the await of
\* llm.generateResponse
handleUserText(c) ==
  LET o == sessions[c] IN
  /\ UNCHANGED <<path, wav, bot, pcm, conn, sessions, sess, calls, wavWriters, call>>
  /\ IF o = 0
     THEN /\ UNCHANGED turns
          /\ out' = Out("handleUserText", c, <<>>, FALSE)
     ELSE /\ BagCardinality(turns) < MaxTurns
          /\ turns' = turns (+) One(Turn("text", c, o, "gen"))
          /\ out' = Out("handleUserText", c, <<"transcript">>, FALSE)

\* a catch block of handleDeepgramTranscript that only logs
GenerationFailedKeepsBusy(t) ==
  /\ t.kind \in {"voice", "text"} /\ t.pc = "gen"
  /\ turns' = turns (-) One(t)
  /\ out' = Out("GenerationFailed", t.conn, <<>>, FALSE)
  /\ UNCHANGED <<path, wav, bot, pcm, conn, sessions, sess, calls, wavWriters, call>>

\* a catch block that also marks the session as having greeted
GenerationFailedGreets(t) ==
  /\ t.kind \in {"voice", "text"} /\ t.pc = "gen"
  /\ sess' = IF t.kind = "voice"
             THEN [sess EXCEPT ![t.sess] =
                     [@ EXCEPT !.isProcessing = FALSE, !.hasGreeted = TRUE]]
             ELSE sess
  /\ turns' = turns (-) One(t)
  /\ out' = Out("GenerationFailed", t.conn, <<>>, FALSE)
  /\ UNCHANGED <<path, wav, bot, pcm, conn, sessions, calls, wavWriters, call>>

\* llm.generateResponse rejected: the catch block of the handler
\* (handleDeepgramTranscript clears isProcessing, handleUserText only logs)
GenerationFailed(t) ==
  /\ t.kind \in {"voice", "text"} /\ t.pc = "gen"
  /\ sess' = IF t.kind = "voice"
             THEN [sess EXCEPT ![t.sess].isProcessing = FALSE] ELSE sess
  /\ turns' = turns (-) One(t)
  /\ out' = Out("GenerationFailed", t.conn, <<>>, FALSE)
  /\ UNCHANGED <<path, wav, bot, pcm, conn, sessions, calls, wavWriters, call>>

\* llm.generateResponse resolved: greeting bookkeeping (voice turns), bot_text
\* to the client, then streamBotResponse up to the await of
\* audioService.streamTextToAudioFast
GenerationDone(t) ==
  /\ t.kind \in {"voice", "text"} /\ t.pc = "gen"
  /\ sess' = [sess EXCEPT ![t.sess] =
        [@ EXCEPT !.hasGreeted = IF t.kind = "voice" THEN TRUE ELSE @,
                  !.audioChunks = <<>>]]
  /\ turns' = (turns (-) One(t)) (+) One([t EXCEPT !.pc = "stream"])
  /\ out' = Out("GenerationDone", t.conn, <<"bot_text">>, FALSE)
  /\ UNCHANGED <<path, wav, bot, pcm, conn, sessions, calls, wavWriters, call>>

\* an onAudioChunk callback that sends the newest chunk ahead of the others
StreamReadNewestFirst(t, limit, nonEmpty) ==
  LET id == t.chunks + 1 IN
  /\ t.pc = "stream" /\ t.chunks < limit
  /\ sess' = IF nonEmpty
             THEN [sess EXCEPT ![t.sess].audioChunks = Append(@, id)] ELSE sess
  /\ turns' = (turns (-) One(t)) (+)
                One([t EXCEPT !.chunks = id,
                              !.audio = IF nonEmpty THEN @ + 1 ELSE @,
                              !.reads = Append(@, nonEmpty),
                              !.log = IF nonEmpty THEN DeliverFirst(@, id) ELSE @])
  /\ out' = Out("StreamChunk", t.conn,
                IF nonEmpty THEN <<"bot_audio_chunk">> ELSE <<>>, FALSE)
  /\ UNCHANGED <<path, wav, bot, pcm, conn, sessions, calls, wavWriters, call>>

\* streamTextToAudioFast read one more chunk from the response body and
\* called onAudioChunk(chunk, false); limit bounds the chunks of one stream.
\* streamBotResponse sends and stores the chunk when it is not empty
\* (`if (audioChunk && !isFinal)`)
StreamRead(t, limit, nonEmpty) ==
  LET id == t.chunks + 1 IN
  /\ t.pc = "stream" /\ t.chunks < limit
  /\ sess' = IF nonEmpty
             THEN [sess EXCEPT ![t.sess].audioChunks = Append(@, id)] ELSE sess
  /\ turns' = (turns (-) One(t)) (+)
                One([t EXCEPT !.chunks = id,
                              !.audio = IF nonEmpty THEN @ + 1 ELSE @,
                              !.reads = Append(@, nonEmpty),
                              !.log = IF nonEmpty THEN Deliver(@, id) ELSE @])
  /\ out' = Out("StreamChunk", t.conn,
                IF nonEmpty THEN <<"bot_audio_chunk">> ELSE <<>>, FALSE)
  /\ UNCHANGED <<path, wav, bot, pcm, conn, sessions, calls, wavWriters, call>>

\* streamBotResponse: the onAudioChunk callback with a chunk (isFinal = false)
StreamChunk(t) == StreamRead(t, MaxChunks, TRUE)

\* streamBotResponse: the onAudioChunk callback with isFinal = true; it sends
\* the final marker, starts saveBotAudioToFile in the background and clears
\* isProcessing. saveBotAudioToFile awaits mulawToPCM16 only when the session
\* has a writer and the joined chunks are not empty.
StreamFinal(t) ==
  LET o == t.sess
      saving == sess[o].wavWriter # "none" /\ sess[o].audioChunks # <<>> IN
  /\ t.pc = "stream"
  /\ sess' = [sess EXCEPT ![o].isProcessing = FALSE]
  /\ turns' = (turns (-) One(t)) (+)
                (IF saving THEN One(Turn("save", t.conn, o, "save")) ELSE EmptyBag)
  /\ out' = Out("StreamFinal", t.conn, <<"bot_audio_final">>, FALSE)
  /\ UNCHANGED <<path, wav, bot, pcm, conn, sessions, calls, wavWriters, call>>

\* streamTextToAudioFast rejected (bad response, or a read error after some
\* chunks): the catch block of streamBotResponse up to the await of
\* audioService.textToAudio
StreamFailed(t) ==
  /\ t.pc = "stream"
  /\ sess' = [sess EXCEPT ![t.sess].isProcessing = FALSE]
  /\ turns' = (turns (-) One(t)) (+)
                One([t EXCEPT !.pc = "fallback", !.fallbacks = @ + 1])
  /\ out' = Out("StreamFailed", t.conn, <<>>, FALSE)
  /\ UNCHANGED <<path, wav, bot, pcm, conn, sessions, calls, wavWriters, call>>

\* the fallback textToAudio resolved: bot_audio to the client, then
\* saveBotAudioToFile(session, botReply, fallbackAudio) up to mulawToPCM16
FallbackDone(t) ==
  LET o == t.sess IN
  /\ t.pc = "fallback"
  /\ turns' = (turns (-) One(t)) (+)
                (IF sess[o].wavWriter # "none"
                 THEN One(Turn("save", t.conn, o, "save")) ELSE EmptyBag)
  /\ out' = Out("FallbackDone", t.conn, <<"bot_audio">>, FALSE)
  /\ UNCHANGED <<path, wav, bot, pcm, conn, sessions, sess, calls, wavWriters, call>>

\* a fallback that calls textToAudio once more when the first attempt rejects
FallbackFailedRetry(t) ==
  /\ t.pc = "fallback"
  /\ turns' = (turns (-) One(t)) (+)
                (IF t.fallbacks < 2 THEN One([t EXCEPT !.fallbacks = @ + 1])
                 ELSE EmptyBag)
  /\ out' = Out("FallbackFailed", t.conn, <<>>, FALSE)
  /\ UNCHANGED <<path, wav, bot, pcm, conn, sessions, sess, calls, wavWriters, call>>

\* the fallback textToAudio rejected too: logged, the turn is given up
FallbackFailed(t) ==
  /\ t.pc = "fallback"
  /\ turns' = turns (-) One(t)
  /\ out' = Out("FallbackFailed", t.conn, <<>>, FALSE)
  /\ UNCHANGED <<path, wav, bot, pcm, conn, sessions, sess, calls, wavWriters, call>>

\* saveBotAudioToFile after mulawToPCM16: session.wavWriter.writePCM16(...)
\* (an error of the write is caught and logged)
SaveDone(t) ==
  /\ t.pc = "save"
  /\ turns' = turns (-) One(t)
  /\ out' = Out("SaveDone", t.conn, <<>>, TRUE)
  /\ UNCHANGED <<path, wav, bot, pcm, conn, sessions, sess, calls, wavWriters, call>>

\* PlaygroundDeepgramService.createLive: the socket's 'open' event
DgOpen(o) ==
  /\ sess[o].dgSocket = "connecting"
  /\ sess' = [sess EXCEPT ![o].dgSocket = "open"]
  /\ out' = Out("DgOpen", sess[o].client, <<>>, FALSE)
  /\ UNCHANGED <<path, wav, bot, pcm, conn, sessions, calls, wavWriters, call, turns>>

\* ... its 'close' event: the connect failed or the provider closed the
\* connection (dgSocket.close() of endSession closes it at once)
DgClose(o) ==
  /\ sess[o].dgSocket # "closed"
  /\ sess' = [sess EXCEPT ![o].dgSocket = "closed"]
  /\ out' = Out("DgClose", sess[o].client, <<>>, FALSE)
  /\ UNCHANGED <<path, wav, bot, pcm, conn, sessions, calls, wavWriters, call, turns>>

\* ... its 'message' event with a final, non-empty transcript: the callback
\* (msg) => this.handleDeepgramTranscript(client, msg) bound by startSession
DgMessage(o) ==
  /\ sess[o].dgSocket = "open"
  /\ handleDeepgramTranscript(sess[o].client)

\* the texts of the transcript events, as sequences of characters
TranscriptTexts == {<<>>, <<" ">>, <<"h", "i">>, <<" ", "h", "i", " ">>}

\* the 'message' listener of PlaygroundDeepgramService.createLive for any
\* result of the provider: the callback runs when is_final is set and the
\* transcript is a non-empty string
DgEvent(o, final, text) ==
  /\ sess[o].dgSocket = "open"
  /\ IF final /\ text # <<>>
     THEN handleDeepgramTranscript(sess[o].client)
     ELSE /\ out' = Out("DgMessage", sess[o].client, <<>>, FALSE)
          /\ UNCHANGED <<path, wav, bot, pcm, conn, sessions, sess, calls, wavWriters,
                         call, turns>>

\* a keepalive that sends the silent frame whatever the socket's readyState
SilenceTickNoCheck(o) ==
  /\ sess[o].silenceInterval = "active"
  /\ sess' = [sess EXCEPT ![o] = [@ EXCEPT !.timer = 0, !.idle = 0]]
  /\ out' = OutAudio("SilenceSent", sess[o].client, <<>>, FALSE, <<SilenceFrame>>)
  /\ UNCHANGED <<path, wav, bot, pcm, conn, sessions, calls, wavWriters, call, turns>>

\* PlaygroundService.startSilence: one tick of the keepalive interval
SilenceTick(o) ==
  LET open == sess[o].dgSocket = "open" IN
  /\ sess[o].silenceInterval = "active"
  /\ sess' = [sess EXCEPT ![o] =
        [@ EXCEPT !.timer = 0, !.idle = IF open THEN 0 ELSE @]]
  /\ out' = OutAudio(IF open THEN "SilenceSent" ELSE "SilenceSkipped",
                     sess[o].client, <<>>, FALSE,
                     IF open THEN <<SilenceFrame>> ELSE <<>>)
  /\ UNCHANGED <<path, wav, bot, pcm, conn, sessions, calls, wavWriters, call, turns>>

\* the audio frames received so far, over all calls and sessions
FramesReceived ==
  LET SumC[i \in 0..Len(call)] == IF i = 0 THEN 0 ELSE SumC[i - 1] + call[i].recv
      SumS[i \in 0..Len(sess)] == IF i = 0 THEN 0 ELSE SumS[i - 1] + sess[i].recv
  IN SumC[Len(call)] + SumS[Len(sess)]

\* ------------------------------------------------------ PlaygroundGateway
\* handleConnection: installs the handlers, greets the client
PgConnect(c) ==
  /\ path = "playground" /\ conn[c] = "none"
  /\ conn' = [conn EXCEPT ![c] = "open"]
  /\ out' = Out("handleConnection", c, <<"welcome">>, FALSE)
  /\ UNCHANGED <<path, wav, bot, pcm, sessions, sess, calls, wavWriters, call, turns>>

\* client message {type: 'register'}
PgRegister(c) ==
  /\ path = "playground" /\ conn[c] = "open"
  /\ \E ok \in BOOLEAN : startSession(c, 48000, ok)

\* client message {type: 'stop'}
PgStop(c) ==
  /\ path = "playground" /\ conn[c] = "open"
  /\ endSession(c)

\* a binary client message (an audio chunk)
PgAudio(c) ==
  /\ path = "playground" /\ conn[c] = "open"
  /\ FramesReceived < MaxFrames
  /\ \E ok, wok \in BOOLEAN : handleAudio(c, ok, wok)

\* the sample rates startSession is called with: the rate of the client's
\* audio (the only one the gateway passes) and the rate the transcoder
\* produces
SampleRates == {16000, 48000}

\* PlaygroundService.startSession(client, sampleRate) called with any of
\* these rates
PgStartRate(c) ==
  /\ path = "playground" /\ conn[c] = "open"
  /\ \E rate \in SampleRates : \E ok \in BOOLEAN : startSession(c, rate, ok)

\* typed text of the client (PlaygroundService.handleUserText)
PgText(c) ==
  /\ path = "playground" /\ conn[c] = "open"
  /\ handleUserText(c)

\* the client transport closes: the 'close' listener installed by
\* setupClientMessageHandler and the gateway's handleDisconnect both call
\* endSession(client)
PgDisconnect(c) ==
  LET S == EndSession(EndSession(PgState, c), c) IN
  /\ path = "playground" /\ conn[c] = "open"
  /\ conn' = [conn EXCEPT ![c] = "closed"]
  /\ sessions' = S.sessions
  /\ sess' = S.sess
  /\ out' = Out("handleDisconnect", c, <<>>, FALSE)
  /\ UNCHANGED <<path, wav, bot, pcm, calls, wavWriters, call, turns>>

\* ------------------------------------------------- TwilioWebSocketGateway
\* the ActiveCall object of onStart, with the WavWriter it creates and the
\* Deepgram socket createLive is opening for it:
\*   dg       call.dg has been assigned        dgOpen   call.dgOpen
\*   sock     readyState of that socket         starting onStart is suspended
\*   sockCloses, wavEnds: the calls of dg.close() and writer.end()
\*   buf, maxBuf: the pending-audio buffer and its capacity
\*   recv     the media frames onMedia received for it (frame n is the n-th)
\*   released the release steps onStop performed for it, in the order of the code
\*   idle     the time the open transcription socket has been sent nothing
\*   rec      the caller frames written to the recording
\*   sent     the frames passed to dg.send
ActiveCall(c, s) ==
  [client |-> c, streamSid |-> s, dg |-> FALSE, dgOpen |-> FALSE,
   wavWriter |-> "open", wavEnds |-> 0,
   sock |-> "connecting", sockCloses |-> 0, starting |-> TRUE,
   buf |-> <<>>, maxBuf |-> maxBuf, recv |-> 0, released |-> <<>>, idle |-> 0,
   rec |-> <<>>, sent |-> <<>>]

\* handleConnection
TwConnect(c) ==
  /\ path = "call" /\ conn[c] = "none"
  /\ conn' = [conn EXCEPT ![c] = "open"]
  /\ out' = Out("handleConnection", c, <<>>, FALSE)
  /\ UNCHANGED <<path, wav, bot, pcm, sessions, sess, calls, wavWriters, call, turns>>

\* onStart(client, start), up to the await of deepgram.createLive; the
\* stream of connection c has streamSid c
onStart(c) ==
  /\ path = "call" /\ conn[c] = "open"
  /\ Len(call) < MaxCalls
  /\ call' = Append(call, ActiveCall(c, c))
  /\ wavWriters' = [wavWriters EXCEPT ![c] = Len(call) + 1]
  /\ calls' = [calls EXCEPT ![c] = Len(call) + 1]
  /\ out' = Out("onStart", c, <<>>, FALSE)
  /\ UNCHANGED <<path, wav, bot, pcm, conn, sessions, sess, turns>>

\* createLive resolved (the socket's 'open' event): the rest of onStart
ConnectDone(k) ==
  /\ call[k].starting
  /\ call' = [call EXCEPT ![k] =
        [@ EXCEPT !.sock = "open", !.dg = TRUE, !.dgOpen = TRUE, !.starting = FALSE]]
  /\ out' = Out("ConnectDone", call[k].streamSid, <<>>, FALSE)
  /\ UNCHANGED <<path, wav, bot, pcm, conn, sessions, sess, calls, wavWriters, turns>>

\* a catch block of onStart that gives the call up: it ends the recording
\* and removes the entries of the stream
ConnectFailedAborts(k) ==
  LET s == call[k].streamSid IN
  /\ call[k].starting
  /\ call' = [call EXCEPT ![k] =
        [@ EXCEPT !.sock = "closed", !.starting = FALSE, !.wavWriter = "ended"]]
  /\ calls' = [calls EXCEPT ![s] = 0]
  /\ wavWriters' = [wavWriters EXCEPT ![s] = 0]
  /\ out' = Out("ConnectFailed", call[k].streamSid, <<>>, FALSE)
  /\ UNCHANGED <<path, wav, bot, pcm, conn, sessions, sess, turns>>

\* createLive rejected (the socket's 'error' event): the catch block of onStart
ConnectFailed(k) ==
  /\ call[k].starting
  /\ call' = [call EXCEPT ![k] = [@ EXCEPT !.sock = "closed", !.starting = FALSE]]
  /\ out' = Out("ConnectFailed", call[k].streamSid, <<>>, FALSE)
  /\ UNCHANGED <<path, wav, bot, pcm, conn, sessions, sess, calls, wavWriters, turns>>

\* the Deepgram socket of a call is closed by the provider
SockClose(k) ==
  /\ call[k].sock = "open"
  /\ call' = [call EXCEPT ![k].sock = "closed"]
  /\ out' = Out("SockClose", call[k].streamSid, <<>>, FALSE)
  /\ UNCHANGED <<path, wav, bot, pcm, conn, sessions, sess, calls, wavWriters, turns>>

\* a buffer that refuses the new frame when it is full
PushFrameDropNewest(buf, f, cap) ==
  IF Len(buf) >= cap THEN buf ELSE Append(buf, f)

\* call.buf.push(ulaw); if (call.buf.length > call.maxBuf) call.buf.shift()
PushFrame(buf, f, cap) ==
  LET b == Append(buf, f) IN IF Len(b) > cap THEN Tail(b) ELSE b

\* onMedia(msg) for a frame with a payload and the streamSid of connection
\* c; limit bounds the frames received in the behaviour; wok = FALSE when
\* writer.writeMulaw throws: the catch block around the whole body logs and
\* the statements after the write are skipped
onMedia(c, limit, wok) ==
  LET k == calls[c] IN
  /\ path = "call" /\ conn[c] = "open"
  /\ UNCHANGED <<path, wav, bot, pcm, conn, sessions, sess, calls, wavWriters, turns>>
  /\ IF k = 0
     THEN /\ UNCHANGED call
          /\ out' = OutAudio("onMedia", c, <<>>, FALSE, <<>>)
     ELSE LET f == call[k].recv + 1
              w == wavWriters[c] # 0 IN
          /\ FramesReceived < limit
          /\ IF w /\ ~wok
             THEN /\ call' = [call EXCEPT ![k].recv = f]
                  /\ out' = OutWriteFailed("onMedia", c, <<>>, <<>>)
             ELSE IF call[k].dg /\ call[k].dgOpen
             THEN /\ call' = [call EXCEPT ![k] =
                        [@ EXCEPT !.recv = f, !.idle = 0,
                                  !.rec = IF w THEN Deliver(@, f) ELSE @,
                                  !.sent = Deliver(@, f)]]
                  /\ out' = OutAudio("onMedia", c, <<>>, w, <<f>>)
             ELSE /\ call' = [call EXCEPT ![k] =
                        [@ EXCEPT !.recv = f,
                                  !.rec = IF w THEN Deliver(@, f) ELSE @,
                                  !.buf = PushFrame(@, f, call[k].maxBuf)]]
                  /\ out' = OutAudio("onMedia", c, <<>>, w, <<>>)

\* an onStop that removes the entry of the stream from calls only
OnStopCallOnly(S, s) ==
  LET k == S.calls[s]
      c0 == IF k # 0 /\ S.call[k].dg
            THEN [S.call EXCEPT ![k] =
                    [@ EXCEPT !.sock = "closed", !.sockCloses = @ + 1,
                              !.released = Append(@, "bridge")]]
            ELSE S.call
      c1 == IF k # 0
            THEN [c0 EXCEPT ![k].released = Append(@, "entry")]
            ELSE c0 IN
  [calls |-> [S.calls EXCEPT ![s] = 0],
   wavWriters |-> S.wavWriters,
   call |-> c1]

\* onStop(stop) as a function of the two registries and the call objects:
\* S = [calls |-> ..., wavWriters |-> ..., call |-> ...]
OnStop(S, s) ==
  LET k == S.calls[s]
      w == S.wavWriters[s]
      c0 == IF k # 0 /\ S.call[k].dg
            THEN [S.call EXCEPT ![k] =
                    [@ EXCEPT !.sock = "closed", !.sockCloses = @ + 1,
                              !.released = Append(@, "bridge")]]
            ELSE S.call
      c1 == IF k # 0
            THEN [c0 EXCEPT ![k].released = Append(@, "entry")]
            ELSE c0
      c2 == IF w # 0
            THEN [c1 EXCEPT ![w] =
                    [@ EXCEPT !.wavWriter = "ended", !.wavEnds = @ + 1,
                              !.released = @ \o <<"writer", "writerEntry">>]]
            ELSE c1 IN
  [calls |-> [S.calls EXCEPT ![s] = 0],
   wavWriters |-> [S.wavWriters EXCEPT ![s] = 0],
   call |-> c2]

TwState == [calls |-> calls, wavWriters |-> wavWriters, call |-> call]

\* Twilio message {event: 'stop'}
onStop(c) ==
  LET S == OnStop(TwState, c) IN
  /\ path = "call" /\ conn[c] = "open"
  /\ calls' = S.calls
  /\ wavWriters' = S.wavWriters
  /\ call' = S.call
  /\ out' = Out("onStop", c, <<>>, FALSE)
  /\ UNCHANGED <<path, wav, bot, pcm, conn, sessions, sess, turns>>

\* the client transport closes: the 'close' listener of handleConnection
\* only logs
TwDisconnect(c) ==
  /\ path = "call" /\ conn[c] = "open"
  /\ conn' = [conn EXCEPT ![c] = "closed"]
  /\ out' = Out("TwDisconnect", c, <<>>, FALSE)
  /\ UNCHANGED <<path, wav, bot, pcm, sessions, sess, calls, wavWriters, call, turns>>

\* onTranscript(streamSid, d) for a final, non-empty transcript, delivered by
\* the Deepgram socket of call object k, up to the await of generateResponse
onTranscript(k) ==
  LET s == call[k].streamSid IN
  /\ call[k].sock = "open"
  /\ UNCHANGED <<path, wav, bot, pcm, conn, sessions, sess, calls, wavWriters, call>>
  /\ out' = Out("onTranscript", s, <<>>, FALSE)
  /\ IF calls[s] = 0
     THEN UNCHANGED turns
     ELSE /\ BagCardinality(turns) < MaxCallTurns
          /\ turns' = turns (+) One(Turn("call", s, calls[s], "gen"))

\* onTranscript(streamSid, d) for any result of the provider: it returns when
\* the stream has no call or the trimmed text is empty, notes the text in
\* the call's transcriptHistory (which nothing reads) and starts a turn for a
\* final result
TwEvent(k, final, text) ==
  IF final /\ Trim(text) # <<>>
  THEN onTranscript(k)
  ELSE /\ call[k].sock = "open"
       /\ out' = Out("onTranscript", call[k].streamSid, <<>>, FALSE)
       /\ UNCHANGED <<path, wav, bot, pcm, conn, sessions, sess, calls, wavWriters,
                      call, turns>>

\* llm generateResponse rejected: the await is outside the try block, so the
\* rejection leaves onTranscript, whose promise the message listener of
\* createLive drops
CallGenerationFailed(t) ==
  /\ t.kind = "call" /\ t.pc = "gen"
  /\ turns' = turns (-) One(t)
  /\ out' = OutUncaught("GenerationFailed", t.conn)
  /\ UNCHANGED <<path, wav, bot, pcm, conn, sessions, sess, calls, wavWriters, call>>

\* the rejection that left onTranscript is unhandled: the message listener
\* of createLive dropped the promise and nothing in the program registers a
\* handler for unhandled rejections, so the runtime either only reports it
\* (CallGenerationFailed) or ends the process, and with it every stream
UnhandledRejectionExit(t) ==
  /\ t.kind = "call" /\ t.pc = "gen"
  /\ turns' = EmptyBag
  /\ conn' = [c \in DOMAIN conn |-> IF conn[c] = "open" THEN "closed" ELSE conn[c]]
  /\ calls' = [c \in DOMAIN calls |-> 0]
  /\ wavWriters' = [c \in DOMAIN wavWriters |-> 0]
  /\ out' = OutUncaught("ProcessExit", t.conn)
  /\ UNCHANGED <<path, wav, bot, pcm, sessions, sess, call>>

\* llm generateResponse resolved: onTranscript up to the await of textToAudio
CallGenerationDone(t) ==
  /\ t.kind = "call" /\ t.pc = "gen"
  /\ turns' = (turns (-) One(t)) (+) One([t EXCEPT !.pc = "tts"])
  /\ out' = Out("GenerationDone", t.conn, <<>>, FALSE)
  /\ UNCHANGED <<path, wav, bot, pcm, conn, sessions, sess, calls, wavWriters, call>>

\* sendAudioToTwilio(streamSid, audio): the messages it sends
sendAudioToTwilio(s) ==
  IF calls[s] = 0 THEN <<>> ELSE <<"media", "mark">>

\* textToAudio resolved: the reply is written to the recording when the
\* stream still has a writer, then sendAudioToTwilio
TtsDone(t) ==
  /\ t.pc = "tts"
  /\ turns' = turns (-) One(t)
  /\ out' = Out("TtsDone", t.conn, sendAudioToTwilio(t.conn), wavWriters[t.conn] # 0)
  /\ UNCHANGED <<path, wav, bot, pcm, conn, sessions, sess, calls, wavWriters, call>>

\* textToAudio resolved but audioService.saveAudioToFile threw (writeFileSync
\* of the reply file failed): the catch block logs, nothing was written to
\* the recording and nothing is sent
SaveAudioFailed(t) ==
  /\ t.pc = "tts"
  /\ turns' = turns (-) One(t)
  /\ out' = Out("SaveAudioFailed", t.conn, <<>>, FALSE)
  /\ UNCHANGED <<path, wav, bot, pcm, conn, sessions, sess, calls, wavWriters, call>>

\* textToAudio rejected: logged
TtsFailed(t) ==
  /\ t.pc = "tts"
  /\ turns' = turns (-) One(t)
  /\ out' = Out("TtsFailed", t.conn, <<>>, FALSE)
  /\ UNCHANGED <<path, wav, bot, pcm, conn, sessions, sess, calls, wavWriters, call>>

\* ------------------------------------------------------------ the system
Init ==
  /\ path \in {"playground", "call"}
  /\ conn = [c \in Conns |-> "none"]
  /\ sessions = [c \in Conns |-> 0]
  /\ sess = <<>>
  /\ calls = [c \in Conns |-> 0]
  /\ wavWriters = [c \in Conns |-> 0]
  /\ call = <<>>
  /\ turns = EmptyBag
  /\ out = Out("init", 0, <<>>, FALSE)
  /\ wav = NewWavWriter
  /\ bot = NewBot
  /\ pcm = NewRecording

Next ==
  \/ \E c \in Conns : PgConnect(c)
  \/ \E c \in Conns : PgRegister(c)
  \/ \E c \in Conns : PgStop(c)
  \/ \E c \in Conns : PgDisconnect(c)
  \/ \E o \in DOMAIN sess : DgOpen(o)
  \/ \E o \in DOMAIN sess : DgClose(o)
  \/ \E o \in DOMAIN sess : DgMessage(o)
  \/ \E o \in DOMAIN sess : SilenceTick(o)
  \/ \E t \in Active : GenerationFailed(t)
  \/ \E t \in Active : GenerationDone(t)
  \/ \E t \in Active : StreamChunk(t)
  \/ \E t \in Active : StreamFinal(t)
  \/ \E t \in Active : StreamFailed(t)
  \/ \E t \in Active : FallbackDone(t)
  \/ \E t \in Active : FallbackFailed(t)
  \/ \E t \in Active : SaveDone(t)
  \/ \E c \in Conns : TwConnect(c)
  \/ \E c \in Conns : onStart(c)
  \/ \E c \in Conns : onStop(c)
  \/ \E c \in Conns : TwDisconnect(c)
  \/ \E k \in DOMAIN call : ConnectDone(k)
  \/ \E k \in DOMAIN call : ConnectFailed(k)
  \/ \E k \in DOMAIN call : SockClose(k)
  \/ \E k \in DOMAIN call : onTranscript(k)
  \/ \E t \in Active : CallGenerationFailed(t)
  \/ \E t \in Active : CallGenerationDone(t)
  \/ \E t \in Active : TtsDone(t)
  \/ \E t \in Active : SaveAudioFailed(t)
  \/ \E t \in Active : TtsFailed(t)

Spec == Init /\ [][Next]_vars

\* No handler of PlaygroundGateway calls handleUserText; NextText adds it as an
\* operation a client of the service may invoke
NextText ==
  \/ Next
  \/ \E c \in Conns : PgText(c)

SpecText == Init /\ [][NextText]_vars

\* The audio path: the life cycle of the connections, sessions and
\* transcription sockets together with the handlers of caller audio
\* (handleAudio, onMedia) and the keepalive, without the reply pipeline
NextAudio ==
  \/ \E c \in Conns : PgConnect(c)
  \/ \E c \in Conns : PgRegister(c)
  \/ \E c \in Conns : PgStop(c)
  \/ \E c \in Conns : PgDisconnect(c)
  \/ \E c \in Conns : PgAudio(c)
  \/ \E o \in DOMAIN sess : DgOpen(o)
  \/ \E o \in DOMAIN sess : DgClose(o)
  \/ \E o \in DOMAIN sess : SilenceTick(o)
  \/ \E c \in Conns : TwConnect(c)
  \/ \E c \in Conns : onStart(c)
  \/ \E c \in Conns : onStop(c)
  \/ \E c \in Conns : TwDisconnect(c)
  \/ \E c \in Conns : \E wok \in BOOLEAN : onMedia(c, MaxFrames, wok)
  \/ \E k \in DOMAIN call : ConnectDone(k)
  \/ \E k \in DOMAIN call : ConnectFailed(k)
  \/ \E k \in DOMAIN call : SockClose(k)

SpecAudio == Init /\ [][NextAudio]_vars

\* The audio path with sessions of either sample rate and the transcoder's
\* output
NextRate ==
  \/ NextAudio
  \/ \E c \in Conns : PgStartRate(c)
  \/ \E o \in DOMAIN sess : FfmpegData(o)

SpecRate == Init /\ [][NextRate]_vars

\* The reply pipeline together with the handlers of caller audio: frames
\* arrive at any point of a turn
NextBusy ==
  \/ Next
  \/ \E c \in Conns : PgAudio(c)
  \/ \E c \in Conns : \E wok \in BOOLEAN : onMedia(c, MaxFrames, wok)

SpecBusy == Init /\ [][NextBusy]_vars

\* the streams of the telephony gateway when two of them are connected
Streams == {1, 2}

\* Two telephony streams side by side: every handler of the gateway and
\* every outcome of a turn, for either stream in any order
InitIso ==
  /\ path = "call"
  /\ conn = [c \in Streams |-> "none"]
  /\ sessions = [c \in Streams |-> 0]
  /\ sess = <<>>
  /\ calls = [c \in Streams |-> 0]
  /\ wavWriters = [c \in Streams |-> 0]
  /\ call = <<>>
  /\ turns = EmptyBag
  /\ out = Out("init", 0, <<>>, FALSE)
  /\ wav = NewWavWriter
  /\ bot = NewBot
  /\ pcm = NewRecording

NextIso ==
  \/ \E c \in Streams : TwConnect(c)
  \/ \E c \in Streams : onStart(c)
  \/ \E c \in Streams : onStop(c)
  \/ \E c \in Streams : TwDisconnect(c)
  \/ \E c \in Streams : \E wok \in BOOLEAN : onMedia(c, MaxFrames, wok)
  \/ \E k \in DOMAIN call : ConnectDone(k)
  \/ \E k \in DOMAIN call : ConnectFailed(k)
  \/ \E k \in DOMAIN call : SockClose(k)
  \/ \E k \in DOMAIN call : onTranscript(k)
  \/ \E t \in Active : CallGenerationFailed(t)
  \/ \E t \in Active : UnhandledRejectionExit(t)
  \/ \E t \in Active : CallGenerationDone(t)
  \/ \E t \in Active : TtsDone(t)
  \/ \E t \in Active : SaveAudioFailed(t)
  \/ \E t \in Active : TtsFailed(t)

SpecIso == InitIso /\ [][NextIso]_vars

\* One telephony call that receives a long run of media frames while its
\* transcription connection is being established and after it has opened;
\* the writes to its recording succeed
NextBuf ==
  \/ \E c \in Conns : TwConnect(c)
  \/ \E c \in Conns : calls[c] = 0 /\ onStart(c)
  \/ \E c \in Conns : onMedia(c, MaxBurst, TRUE)
  \/ \E k \in DOMAIN call : ConnectDone(k)

SpecBuf == Init /\ [][NextBuf]_vars

\* A recording sink on its own: any sequence of writes, each of which may
\* fail, followed by end()
InitWav ==
  /\ path = "wav"
  /\ conn = [c \in Conns |-> "none"]
  /\ sessions = [c \in Conns |-> 0]
  /\ sess = <<>>
  /\ calls = [c \in Conns |-> 0]
  /\ wavWriters = [c \in Conns |-> 0]
  /\ call = <<>>
  /\ turns = EmptyBag
  /\ out = Out("init", 0, <<>>, FALSE)
  /\ wav = NewWavWriter
  /\ bot = NewBot
  /\ pcm = NewRecording

NextWav ==
  \/ \E len \in WriteLens : \E ok \in BOOLEAN : WavWrite(len, ok)
  \/ WavClose

SpecWav == InitWav /\ [][NextWav]_vars

\* The transcription provider delivers interim and final results with any
\* text
NextEvents ==
  \/ Next
  \/ \E o \in DOMAIN sess : \E final \in BOOLEAN : \E text \in TranscriptTexts :
       DgEvent(o, final, text)
  \/ \E k \in DOMAIN call : \E final \in BOOLEAN : \E text \in TranscriptTexts :
       TwEvent(k, final, text)

SpecEvents == Init /\ [][NextEvents]_vars

\* The replies of one session: any generated text on each of its turns
InitReply ==
  /\ path = "reply"
  /\ conn = [c \in Conns |-> "none"]
  /\ sessions = [c \in Conns |-> 0]
  /\ sess = <<>>
  /\ calls = [c \in Conns |-> 0]
  /\ wavWriters = [c \in Conns |-> 0]
  /\ call = <<>>
  /\ turns = EmptyBag
  /\ out = Out("init", 0, <<>>, FALSE)
  /\ wav = NewWavWriter
  /\ bot = NewBot
  /\ pcm = NewRecording

NextReply == \E raw \in Replies : ReplyTurn(raw)

SpecReply == InitReply /\ [][NextReply]_vars

\* One time unit passes. A keepalive interval that is due fires before time
\* moves on; idle stops counting at SilencePeriod.
Tick ==
  /\ \A o \in DOMAIN sess :
       sess[o].silenceInterval = "active" => sess[o].timer < SilencePeriod
  /\ sess' = [o \in DOMAIN sess |->
        [sess[o] EXCEPT
           !.timer = IF sess[o].silenceInterval = "active" THEN @ + 1 ELSE @,
           !.idle = IF sess[o].dgSocket = "open" /\ @ < SilencePeriod
                    THEN @ + 1 ELSE @]]
  /\ call' = [k \in DOMAIN call |->
        [call[k] EXCEPT
           !.idle = IF call[k].sock = "open" /\ @ < SilencePeriod
                    THEN @ + 1 ELSE @]]
  /\ out' = Out("Tick", 0, <<>>, FALSE)
  /\ UNCHANGED <<path, wav, bot, pcm, conn, sessions, calls, wavWriters, turns>>

\* setInterval(..., 5000): the callback of startSilence runs when its period
\* has passed
SilenceDue(o) ==
  /\ sess[o].timer = SilencePeriod
  /\ SilenceTick(o)

\* The audio path in time: the keepalive fires every SilencePeriod time units
NextTime ==
  \/ \E c \in Conns : PgConnect(c)
  \/ \E c \in Conns : PgRegister(c)
  \/ \E c \in Conns : PgStop(c)
  \/ \E c \in Conns : PgDisconnect(c)
  \/ \E c \in Conns : PgAudio(c)
  \/ \E o \in DOMAIN sess : DgOpen(o)
  \/ \E o \in DOMAIN sess : DgClose(o)
  \/ \E o \in DOMAIN sess : SilenceDue(o)
  \/ \E c \in Conns : TwConnect(c)
  \/ \E c \in Conns : onStart(c)
  \/ \E c \in Conns : onStop(c)
  \/ \E c \in Conns : TwDisconnect(c)
  \/ \E c \in Conns : \E wok \in BOOLEAN : onMedia(c, MaxFrames, wok)
  \/ \E k \in DOMAIN call : ConnectDone(k)
  \/ \E k \in DOMAIN call : ConnectFailed(k)
  \/ \E k \in DOMAIN call : SockClose(k)
  \/ Tick

SpecTime == Init /\ [][NextTime]_vars

\* The event loop runs every continuation whose awaited provider call has
\* settled: an activation of handleDeepgramTranscript that is suspended for
\* session object o at stage p (generateResponse, streamTextToAudioFast or the
\* fallback textToAudio) is eventually resumed with the result or the error.
Settle(o, p) ==
  \E t \in Active :
    /\ t.kind = "voice" /\ t.sess = o /\ t.pc = p
    /\ \/ GenerationFailed(t) \/ GenerationDone(t)
       \/ StreamFinal(t) \/ StreamFailed(t)
       \/ FallbackDone(t) \/ FallbackFailed(t)

FairSpec ==
  Spec /\ \A o \in 1..MaxSessions :
            \A p \in {"gen", "stream", "fallback"} : WF_vars(Settle(o, p))

\* The decoder of the telephony recording on its own: any bytes are written
InitMulaw ==
  /\ path = "mulaw"
  /\ conn = [c \in Conns |-> "none"]
  /\ sessions = [c \in Conns |-> 0]
  /\ sess = <<>>
  /\ calls = [c \in Conns |-> 0]
  /\ wavWriters = [c \in Conns |-> 0]
  /\ call = <<>>
  /\ turns = EmptyBag
  /\ out = Out("init", 0, <<>>, FALSE)
  /\ wav = NewWavWriter
  /\ bot = NewBot
  /\ pcm = NewRecording

NextMulaw == \E b \in Bytes : WriteMulaw(b)

SpecMulaw == InitMulaw /\ [][NextMulaw]_vars

\* The turns of the playground service with streams of several chunks, some
\* of them empty, while the session may be stopped or its client disconnect
NextStream ==
  \/ \E c \in Conns : PgConnect(c)
  \/ \E c \in Conns : PgRegister(c)
  \/ \E c \in Conns : PgStop(c)
  \/ \E c \in Conns : PgDisconnect(c)
  \/ \E o \in DOMAIN sess : DgOpen(o)
  \/ \E o \in DOMAIN sess : DgMessage(o)
  \/ \E t \in Active : GenerationFailed(t)
  \/ \E t \in Active : GenerationDone(t)
  \/ \E t \in Active : \E nonEmpty \in BOOLEAN :
       StreamRead(t, MaxStreamChunks, nonEmpty)
  \/ \E t \in Active : StreamFinal(t)
  \/ \E t \in Active : StreamFailed(t)
  \/ \E t \in Active : FallbackDone(t)
  \/ \E t \in Active : FallbackFailed(t)
  \/ \E t \in Active : SaveDone(t)

SpecStream == Init /\ [][NextStream]_vars

\* ------------------------------------------------------------- properties
\* a generation or synthesis call of the activation is outstanding
InFlight(t) == t.kind \in {"voice", "call"} /\ t.pc \in {"gen", "stream", "fallback", "tts"}

\* the turns of session object o (of the given kind) that are in flight
InFlightCount(kind, o) ==
  BagCardinality([t \in {x \in Active : x.kind = kind /\ x.sess = o /\ InFlight(x)}
                    |-> turns[t]])

\* the activations that took a step (were resumed or ended) in this step
Resumed == BagToSet(turns (-) turns')

\* endSession / onStop has run for the session object the activation holds
Destroyed(t) ==
  IF t.kind = "call" THEN call[t.sess].wavWriter = "ended"
  ELSE sess[t.sess].wavWriter = "ended"

\* C1: for every session (playground client or telephony call) at most one
\* turn is in flight at any instant: no generation call is started while an
\* earlier generation or synthesis call of the same session is outstanding.
C1_SingleFlight ==
  /\ \A o \in DOMAIN sess : InFlightCount("voice", o) <= 1
  /\ \A k \in DOMAIN call : InFlightCount("call", k) <= 1

\* C2: a final transcript that arrives while the session is Busy is discarded:
\* it starts no generation call and queues nothing (turns unchanged), sends
\* nothing to the client, and leaves every field of the session and the
\* registry unchanged.
C2_BusyTranscriptDiscarded ==
  [][\A c \in Conns :
       (/\ out'.op = "handleDeepgramTranscript" /\ out'.conn = c
        /\ sessions[c] # 0 /\ sess[sessions[c]].isProcessing)
       => (/\ out'.msgs = <<>> /\ ~out'.wrote
           /\ UNCHANGED <<sessions, sess, turns, conn>>)]_vars

\* a transcript has just been dropped for a registered, Busy session whose turn
\* is still in flight
C2_Witness ==
  /\ out.op = "handleDeepgramTranscript" /\ out.msgs = <<>>
  /\ sessions[out.conn] # 0
  /\ sess[sessions[out.conn]].isProcessing
  /\ \E t \in Active : t.sess = sessions[out.conn] /\ InFlight(t)

\* C3: every turn that sets the session Busy eventually returns it to Idle,
\* whatever the outcome of generation, streaming synthesis and fallback.
C3_BusyEventuallyIdle ==
  \A o \in 1..MaxSessions :
    (o \in DOMAIN sess /\ sess[o].isProcessing)
      ~> (o \in DOMAIN sess /\ ~sess[o].isProcessing)

\* a turn whose stream and fallback both failed has ended and its session is
\* Idle again
C3_Witness ==
  /\ out.op = "FallbackFailed"
  /\ \E o \in DOMAIN sess : sess[o].hasGreeted /\ ~sess[o].isProcessing
  /\ turns = EmptyBag

\* C4: Busy is not cleared while the generation call, the streaming synthesis
\* or the fallback synthesis of the turn that set it is outstanding, neither
\* by that turn nor by another operation on the session.
C4_BusyUntilPipelineDone ==
  \A t \in Active :
    (t.kind = "voice" /\ t.pc \in {"gen", "stream", "fallback"})
      => sess[t.sess].isProcessing

\* C5: when generation fails, or synthesis fails (the stream and the fallback
\* attempt), no audio message at all was sent for that turn, Busy is clear
\* and the registry still holds the session.
C5_FailedTurnSendsNoAudio ==
  [][out'.op \in {"GenerationFailed", "FallbackFailed", "TtsFailed"}
       => /\ UNCHANGED <<sessions, calls, wavWriters>>
          /\ out'.msgs = <<>>
          /\ \A t \in Resumed :
               /\ t.audio = 0
               /\ t.kind = "voice" => ~sess'[t.sess].isProcessing]_vars

\* C6: when streaming synthesis fails, exactly one full-buffer synthesis
\* attempt is made; if it succeeds its audio is sent to the client (one
\* bot_audio message), if it fails the turn is given up with no further
\* synthesis attempt.
C6_OneFallbackAttempt ==
  /\ [](\A t \in Active :
          /\ t.pc = "fallback" => t.fallbacks = 1
          /\ t.pc \in {"gen", "stream"} => t.fallbacks = 0)
  /\ [][/\ out'.op = "StreamFailed"
          => \E t \in Resumed :
               /\ t.pc = "stream"
               /\ turns' = (turns (-) One(t)) (+)
                             One([t EXCEPT !.pc = "fallback", !.fallbacks = 1])
        /\ out'.op = "FallbackDone"
          => /\ out'.msgs = <<"bot_audio">>
             /\ \E t \in Resumed : t.pc = "fallback" /\ t.fallbacks = 1
             /\ \A u \in BagToSet(turns' (-) turns) : u.pc = "save"
        /\ out'.op = "FallbackFailed"
          => /\ out'.msgs = <<>>
             /\ \E t \in Resumed :
                  /\ t.pc = "fallback" /\ t.fallbacks = 1
                  /\ turns' = turns (-) One(t)]_vars

\* a stream failed after it had delivered a chunk and the single fallback
\* attempt delivered the reply
C6_Witness ==
  /\ out.op = "FallbackDone" /\ out.msgs = <<"bot_audio">>
  /\ \E o \in DOMAIN sess : sess[o].audioChunks # <<>>
  /\ \A t \in Active : t.pc = "save"

\* C7: after a session is ended at any point of its life, no resource tied to
\* it is left alive once the start handler has returned: the transcription
\* connection is closed, the keepalive timer cancelled, the transcoder
\* terminated, the recording finalized, and the registry has no entry for it.
C7_NoResourceLeftAlive ==
  /\ \A o \in DOMAIN sess :
       sess[o].wavWriter = "ended"
         => /\ sess[o].dgSocket = "closed"
            /\ sess[o].silenceInterval = "cleared"
            /\ sess[o].ffmpeg # "running"
            /\ sessions[sess[o].client] # o
  /\ \A k \in DOMAIN call :
       (call[k].wavWriter = "ended" /\ ~call[k].starting)
         => /\ call[k].sock = "closed"
            /\ calls[call[k].streamSid] # k
            /\ wavWriters[call[k].streamSid] # k

\* C8: once a session has been destroyed, a late callback of one of its turns
\* (generation or synthesis completion, audio chunk, recording write) changes
\* no field of a session, sends nothing to the client and does not write to
\* the recording.
C8_NoLateEffects ==
  [][\A t \in Resumed :
       Destroyed(t) => /\ UNCHANGED <<sess, call>>
                       /\ out'.msgs = <<>>
                       /\ ~out'.wrote]_vars

\* C9: destroy is idempotent: a second endSession / onStop for the same
\* connection, or one for a connection without a session, changes nothing,
\* and no resource is ever released twice (the disconnect path calls
\* endSession twice).
C9_DestroyIdempotent ==
  /\ \A c \in Conns :
       /\ EndSession(EndSession(PgState, c), c) = EndSession(PgState, c)
       /\ sessions[c] = 0 => EndSession(PgState, c) = PgState
       /\ OnStop(OnStop(TwState, c), c) = OnStop(TwState, c)
       /\ (calls[c] = 0 /\ wavWriters[c] = 0) => OnStop(TwState, c) = TwState
  /\ \A o \in DOMAIN sess :
       sess[o].dgCloses <= 1 /\ sess[o].wavEnds <= 1 /\ sess[o].kills <= 1
  /\ \A k \in DOMAIN call :
       call[k].sockCloses <= 1 /\ call[k].wavEnds <= 1

\* the disconnect path has run (endSession twice) for a client with a session
\* whose resources were released exactly once
C9_Witness ==
  /\ out.op = "handleDisconnect"
  /\ \E o \in DOMAIN sess :
       /\ sess[o].client = out.conn
       /\ sess[o].dgCloses = 1 /\ sess[o].wavEnds = 1
       /\ sess[o].dgSocket = "closed" /\ sess[o].wavWriter = "ended"
  /\ sessions[out.conn] = 0

\* C10: after the client transport has disconnected, with or without a stop
\* signal, the registry holds no session entry for that connection and the
\* resources of its sessions are released.
C10_DestroyedOnDisconnect ==
  \A c \in Conns :
    conn[c] = "closed"
      => /\ sessions[c] = 0 /\ calls[c] = 0 /\ wavWriters[c] = 0
         /\ \A k \in DOMAIN call :
              (call[k].client = c /\ ~call[k].starting)
                => call[k].sock = "closed" /\ call[k].wavWriter = "ended"
         /\ \A o \in DOMAIN sess :
              sess[o].client = c
                => sess[o].dgSocket = "closed" /\ sess[o].wavWriter = "ended"

\* C11: session creation is idempotent per connection: a 'register' for a
\* client that already has a session, or a 'start' for a streamSid that
\* already has a call, keeps the registries and every session object as they
\* are (no new session object, so no new socket, timer, transcoder, recording).
C11_CreateIdempotent ==
  [][/\ (out'.op = "startSession" /\ sessions[out'.conn] # 0)
          => UNCHANGED <<sessions, sess>>
     /\ (out'.op = "onStart" /\ calls[out'.conn] # 0)
          => UNCHANGED <<calls, wavWriters, call>>]_vars

\* C12 (as stated): an audio frame for a connection that has no session
\* creates no session and no resource and is dropped: registries and session
\* objects unchanged, nothing recorded, nothing sent.
C12_AudioCreatesNothing ==
  [][/\ (out'.op = "handleAudio" /\ sessions[out'.conn] = 0)
          => (UNCHANGED <<sessions, sess>> /\ ~out'.wrote /\ out'.dg = <<>>)
     /\ (out'.op = "onMedia" /\ calls[out'.conn] = 0)
          => (UNCHANGED <<calls, wavWriters, call>> /\ ~out'.wrote
              /\ out'.dg = <<>>)]_vars

\* C12 (amended): a telephony media frame for a stream without a call is
\* dropped and changes nothing; a playground audio frame for a client without
\* a session first starts a session exactly as 'register' does (one new
\* session object, registered for that client, 'registered' sent, the frame
\* recorded unless the write fails) or, when the start fails, sends 'error'
\* and drops the frame.
C12_AudioStartsPlaygroundSessionOnly ==
  [][/\ (out'.op = "handleAudio" /\ sessions[out'.conn] = 0)
          => \/ /\ sess' = Append(sess,
                             AudioHandled(PlaygroundSession(out'.conn, TRUE),
                                          ~out'.wfail))
                /\ sessions' = [sessions EXCEPT ![out'.conn] = Len(sess) + 1]
                /\ out'.msgs = <<"registered">> /\ out'.wrote = ~out'.wfail
                /\ out'.dg = <<>>
             \/ /\ UNCHANGED <<sessions, sess>>
                /\ out'.msgs = <<"error">> /\ ~out'.wrote /\ out'.dg = <<>>
     /\ (out'.op = "onMedia" /\ calls[out'.conn] = 0)
          => (UNCHANGED <<calls, wavWriters, call>> /\ ~out'.wrote
              /\ out'.dg = <<>> /\ out'.msgs = <<>>)]_vars

\* an audio frame has just started a session for a client that had none
C12_Witness ==
  /\ out.op = "handleAudio" /\ out.msgs = <<"registered">>
  /\ sessions[out.conn] # 0
  /\ sess[sessions[out.conn]].dgSocket = "connecting"

\* the place of a release step in the order timer, transcoder, transcription
\* connection, recording writer, registry entry
ReleaseRank(step) ==
  CASE step = "timer" -> 1
    [] step = "transcoder" -> 2
    [] step = "bridge" -> 3
    [] step = "writer" -> 4
    [] OTHER -> 5

InReleaseOrder(r) ==
  \A i, j \in 1..Len(r) : i < j => ReleaseRank(r[i]) <= ReleaseRank(r[j])

\* C13 (as stated): destroying a session performs its release steps in the
\* order keepalive timer, transcoder, transcription connection, recording
\* writer, registry entry.
C13_ReleaseOrder ==
  /\ \A o \in DOMAIN sess : InReleaseOrder(sess[o].released)
  /\ \A k \in DOMAIN call : InReleaseOrder(call[k].released)

\* C13 (amended): endSession stops the transcoder if present, closes the
\* transcription connection, clears the keepalive timer, ends the recording
\* writer and then removes the entry; onStop closes the transcription
\* connection if it is established, removes the call entry, ends the
\* recording writer and then removes the writer entry; a session that was not
\* destroyed has released nothing.
C13_ReleaseOrderOfCode ==
  /\ \A o \in DOMAIN sess :
       sess[o].released =
         IF sess[o].wavWriter # "ended" THEN <<>>
         ELSE (IF sess[o].ffmpeg = "none" THEN <<>> ELSE <<"transcoder">>)
              \o <<"bridge", "timer", "writer", "entry">>
  /\ \A k \in DOMAIN call :
       call[k].released =
         IF call[k].wavWriter # "ended" THEN <<>>
         ELSE (IF call[k].sockCloses = 0 THEN <<>> ELSE <<"bridge">>)
              \o <<"entry", "writer", "writerEntry">>

\* a call whose transcription connection was established has been stopped
C13_Witness ==
  \E k \in DOMAIN call :
    /\ call[k].released = <<"bridge", "entry", "writer", "writerEntry">>
    /\ calls[call[k].streamSid] = 0 /\ out.op = "onStop"

\* C14: after every media event the pending-audio buffer of a call holds at
\* most maxBuf frames, and a frame that arrives at a full buffer replaces the
\* oldest one: the buffer holds the most recent frames in arrival order.
C14_BufferBounded ==
  /\ [](\A k \in DOMAIN call :
          /\ Len(call[k].buf) <= maxBuf
          /\ \A i \in 1..Len(call[k].buf) - 1 :
               call[k].buf[i + 1] = call[k].buf[i] + 1)
  /\ [][/\ \A k \in DOMAIN call :
             call'[k].buf # call[k].buf
               => out'.op = "onMedia" /\ calls[out'.conn] = k
        /\ (out'.op = "onMedia" /\ calls[out'.conn] # 0 /\ out'.dg = <<>>
            /\ ~out'.wfail)
             => LET k == calls[out'.conn]
                    b == call[k].buf
                    f == call[k].recv + 1
                IN /\ call'[k].recv = f
                   /\ call'[k].buf =
                        IF Len(b) < maxBuf THEN Append(b, f)
                        ELSE Append(Tail(b), f)]_vars

\* frame maxBuf + 1 has arrived at a full buffer: frame 1 is gone and the
\* buffer holds frames 2 .. maxBuf + 1
C14_Witness ==
  \E k \in DOMAIN call :
    /\ Len(call[k].buf) = maxBuf
    /\ call[k].buf[1] = 2 /\ call[k].buf[maxBuf] = maxBuf + 1
    /\ out.op = "onMedia"

\* C15: the frames buffered while the transcription connection was being
\* established are sent, in arrival order, before any frame that arrives
\* after the connection opened: when onMedia sends a frame to the provider,
\* no older frame is left in the call's buffer.
C15_BufferFlushedBeforeNewFrames ==
  [][(out'.op = "onMedia" /\ out'.dg # <<>>)
       => \A k \in DOMAIN call :
            calls[out'.conn] = k => call'[k].buf = <<>>]_vars

\* C16: audio is forwarded to the transcription connection only while that
\* connection is Open: a handler of caller audio that passes a frame to
\* send() does so on a socket that is neither connecting nor closed.
C16_SendOnlyWhileOpen ==
  [][/\ (out'.op = "onMedia" /\ out'.dg # <<>>)
          => /\ calls[out'.conn] # 0
             /\ call[calls[out'.conn]].sock = "open"
     /\ (out'.op = "handleAudio" /\ out'.dg # <<>>)
          => /\ sessions[out'.conn] # 0
             /\ sess[sessions[out'.conn]].dgSocket = "open"]_vars

\* C17: the handle that connect returns to the session is never one whose
\* connection is still in the Connecting state.
C17_HandleNeverConnecting ==
  /\ \A o \in DOMAIN sess : sess[o].dgSocket # "connecting"
  /\ \A k \in DOMAIN call : call[k].dg => call[k].sock # "connecting"

\* the transcription connection of the call failed at call start
ConnectHasFailed(k) == k # 0 /\ ~call[k].starting /\ ~call[k].dg

\* what C18 says of a telephony call: the failed connect leaves the call
\* registered, later media frames are recorded (and kept in the buffer)
\* whenever the write to the recording succeeds, and
\* 'stop' ends the recording and removes the entries
CallSurvivesConnectFailure ==
  LET c == out'.conn
      k == calls[out'.conn] IN
  /\ out'.op = "ConnectFailed"
       => /\ UNCHANGED <<calls, wavWriters>>
          /\ \A j \in DOMAIN call :
               call'[j].wavWriter = call[j].wavWriter /\ call'[j].buf = call[j].buf
  /\ (out'.op = "onMedia" /\ ConnectHasFailed(k) /\ ~out'.wfail)
       => /\ out'.wrote /\ out'.dg = <<>>
          /\ calls'[c] = k /\ call'[k].recv = call[k].recv + 1
  /\ (out'.op = "onStop" /\ ConnectHasFailed(k))
       => /\ calls'[c] = 0 /\ wavWriters'[c] = 0
          /\ call'[k].wavWriter = "ended" /\ call'[k].wavEnds = 1

C19_KeepaliveOnlyWhileOpen ==
  /\ [](\A o \in DOMAIN sess :
          sess[o].wavWriter = "ended" => sess[o].silenceInterval = "cleared")
  /\ [][/\ \A o \in DOMAIN sess :
             SilenceTick(o)
               => /\ sess[o].wavWriter # "ended"
                  /\ out'.dg = IF sess[o].dgSocket = "open"
                               THEN <<[kind |-> "silence", zeros |-> 8192]>>
                               ELSE <<>>
        /\ out'.op = "SilenceSent"
             => \E o \in DOMAIN sess :
                  sess[o].client = out'.conn /\ sess[o].dgSocket = "open"
                  /\ sess[o].silenceInterval = "active"]_vars

\* a keepalive frame has just been sent on the open socket of a registered
\* session
C19_Witness ==
  /\ out.op = "SilenceSent" /\ out.dg = <<SilenceFrame>>
  /\ sessions[out.conn] # 0
  /\ sess[sessions[out.conn]].dgSocket = "open"

\* C20: while the transcription connection of a session is Open, every
\* stretch of SilencePeriod time units in which no audio frame is sent to the
\* provider contains a keepalive frame: when the socket has been sent nothing
\* for SilencePeriod units, a keepalive tick is due at that instant.
C20_KeepaliveEveryPeriod ==
  /\ \A o \in DOMAIN sess :
       (sess[o].dgSocket = "open" /\ sess[o].idle >= SilencePeriod)
         => (sess[o].silenceInterval = "active" /\ sess[o].timer = SilencePeriod)
  /\ \A k \in DOMAIN call :
       call[k].sock = "open" => call[k].idle < SilencePeriod

\* C21: every turn of a registered telephony call whose generation and
\* synthesis both succeeded sends exactly one 'media' envelope directly
\* followed by one 'mark' envelope for its stream, and no step sends a 'mark'
\* that is not directly preceded by its 'media'.
C21_MediaThenMark ==
  [][/\ \A t \in Resumed :
          (t.kind = "call" /\ t.pc = "tts" /\ out'.op # "TtsFailed"
           /\ calls[t.conn] # 0)
            => out'.conn = t.conn /\ out'.msgs = <<"media", "mark">>
     /\ \A i \in 1..Len(out'.msgs) :
          out'.msgs[i] = "mark" => (i > 1 /\ out'.msgs[i - 1] = "media")]_vars

\* C22: after any sequence of writes followed by end(), the data-size field
\* of the rewritten header is the sum of the lengths of the buffers written
\* and the file-size field is that sum plus 36; with nothing written the
\* fields are 0 and 36 and end() does not throw.
C22_HeaderSizes ==
  /\ wav.dataSize = SumLen(wav.data)
  /\ wav.fd = "closed"
       => /\ wav.dataField = SumLen(wav.data)
          /\ wav.fileSize = SumLen(wav.data) + 36
  /\ (out.op = "end" /\ wav.data = <<>>)
       => /\ ~wav.raised /\ wav.fd = "closed"
          /\ wav.dataField = 0 /\ wav.fileSize = 36

\* a recording of three buffers, one of them empty, has been finalized
C22_Witness ==
  /\ out.op = "end" /\ wav.fd = "closed"
  /\ wav.data = <<320, 0, 4>> /\ wav.dataField = 324 /\ wav.fileSize = 360

\* C23: every recording sink opened for a session is finalized exactly once:
\* no writer is ended twice, and once the stop signal of a stream (or the end
\* of a playground session) has been handled, every sink that a start for
\* that stream or client had opened is finalized.
C23_SinkFinalizedOnce ==
  /\ \A k \in DOMAIN call : call[k].wavEnds <= 1
  /\ \A o \in DOMAIN sess : sess[o].wavEnds <= 1
  /\ out.op = "onStop"
       => \A k \in DOMAIN call :
            call[k].streamSid = out.conn => call[k].wavWriter = "ended"
  /\ out.op \in {"endSession", "handleDisconnect"}
       => \A o \in DOMAIN sess :
            sess[o].client = out.conn => sess[o].wavWriter = "ended"

\* C24: a failed write of a caller frame to the recording is contained: the
\* registries are unchanged, nothing of the session but its frame counters
\* and queues changes, and the frame is still passed on for transcription
\* (sent, written to the transcoder, or put into the pending buffer) as it
\* would have been had the write succeeded.
C24_WriteFailureContained ==
  [][out'.wfail
       => /\ ~out'.uncaught
          /\ UNCHANGED <<calls, wavWriters>>
          /\ out'.op = "handleAudio"
               => \E o \in DOMAIN sess' :
                    /\ sessions'[out'.conn] = o
                    /\ sessions[out'.conn] # 0 => UNCHANGED sessions
                    /\ LET x == IF o \in DOMAIN sess THEN sess[o]
                                ELSE PlaygroundSession(out'.conn, TRUE)
                       IN [sess'[o] EXCEPT !.rec = AudioHandled(x, TRUE).rec]
                            = AudioHandled(x, TRUE)
          /\ out'.op = "onMedia"
               => LET k == calls[out'.conn]
                      f == call[k].recv + 1 IN
                  /\ call'[k].recv = f
                  /\ IF call[k].dg /\ call[k].dgOpen
                     THEN out'.dg = <<f>> /\ call'[k].sent = Deliver(call[k].sent, f)
                     ELSE call'[k].buf = PushFrame(call[k].buf, f, call[k].maxBuf)]_vars

\* C25: only final transcript events drive turns: an interim event, or an
\* event whose text is empty or only whitespace, starts no generation call,
\* leaves the session as it is (not Busy) and sends nothing.
C25_OnlyFinalDrivesTurns ==
  [][\A final \in BOOLEAN : \A text \in TranscriptTexts :
       (~final \/ Trim(text) = <<>>)
         => /\ \A o \in DOMAIN sess :
                 DgEvent(o, final, text)
                   => (UNCHANGED <<turns, sess>> /\ out'.msgs = <<>>)
            /\ \A k \in DOMAIN call :
                 TwEvent(k, final, text)
                   => (UNCHANGED <<turns, call>> /\ out'.msgs = <<>>)]_vars

\* C26: a generated reply that contains a greeting phrase is sent unmodified
\* on the first turn of a session, and on every later turn the text that is
\* sent and synthesized contains no greeting phrase.
C26_GreetingOnlyOnce ==
  /\ (bot.turn = 1 /\ Trim(bot.raw) # <<>>) => bot.text = Trim(bot.raw)
  /\ bot.turn >= 2
       => \A i \in 1..Len(bot.text) : bot.text[i] \notin Greetings

\* the frames of q are in arrival order
InArrivalOrder(q) == \A i, j \in 1..Len(q) : i < j => q[i] < q[j]

\* C27: the frames of a session are processed in arrival order: the frames
\* sent to the transcription socket, the frames written to the transcoder's
\* input, the frames waiting in the pending buffer and the caller frames in
\* the recording are each in the order in which they arrived, also for
\* frames that arrive while the start handler is suspended.
C27_FramesInArrivalOrder ==
  /\ \A o \in DOMAIN sess :
       /\ InArrivalOrder(sess[o].rec) /\ InArrivalOrder(sess[o].sent)
       /\ InArrivalOrder(sess[o].pipe)
       /\ InArrivalOrder(sess[o].sent \o sess[o].pipe)
       /\ \A i \in 1..Len(sess[o].rec) : sess[o].rec[i] <= sess[o].recv
  /\ \A k \in DOMAIN call :
       /\ InArrivalOrder(call[k].rec) /\ InArrivalOrder(call[k].sent)
       /\ InArrivalOrder(call[k].buf)
       /\ \A i \in 1..Len(call[k].rec) : call[k].rec[i] <= call[k].recv

\* a frame arrived while onStart was suspended at the connect and a second
\* one after the connection had opened: both are recorded in that order
C27_Witness ==
  \E k \in DOMAIN call :
    /\ call[k].rec = <<1, 2>> /\ call[k].buf = <<1>> /\ call[k].sent = <<2>>
    /\ out.op = "onMedia"

\* C29: a transcoder is started for a session exactly when the rate the
\* transcription connection is opened with differs from the rate of the
\* client's audio; a direct session never has a transcoder, none of its
\* frames is written to a transcoder, and each of its frames that is passed
\* on goes straight to the transcription socket.
C29_TranscoderOnlyWhenRatesDiffer ==
  /\ [](\A o \in DOMAIN sess :
          /\ sess[o].directStream
               => /\ sess[o].ffmpeg = "none" /\ sess[o].kills = 0
                  /\ sess[o].pipe = <<>>
          /\ ~sess[o].directStream => sess[o].ffmpeg # "none")
  /\ [][/\ \A c \in Conns : \A rate \in SampleRates :
             (startSession(c, rate, TRUE) /\ out'.op = "startSession")
               => /\ sess'[Len(sess')].directStream = (rate = ClientRate)
                  /\ (sess'[Len(sess')].ffmpeg = "running") = (rate # ClientRate)
        /\ \A o \in DOMAIN sess :
             (out'.op = "handleAudio" /\ sessions[out'.conn] = o
              /\ sess[o].directStream)
               => /\ sess'[o].pipe = <<>>
                  /\ out'.dg = IF sess[o].dgSocket = "open"
                               THEN <<AudioFrame>> ELSE <<>>
                  /\ sess'[o].sent = IF sess[o].dgSocket = "open"
                                     THEN Append(sess[o].sent, sess[o].recv + 1)
                                     ELSE sess[o].sent
        /\ out'.op = "ffmpegData"
             => \A o \in DOMAIN sess :
                  sess'[o] # sess[o] => ~sess[o].directStream]_vars

\* a frame of a direct session has gone straight to the open socket
C29_Witness ==
  /\ out.op = "handleAudio" /\ out.dg = <<AudioFrame>>
  /\ sessions[out.conn] # 0
  /\ sess[sessions[out.conn]].directStream
  /\ sess[sessions[out.conn]].ffmpeg = "none"
  /\ sess[sessions[out.conn]].sent # <<>>

\* C28: audio ingestion is never blocked by a turn. While a turn of a
\* session is in flight (isProcessing set, a generation or synthesis call
\* outstanding), a frame handled by handleAudio / onMedia is counted,
\* recorded and sent, piped or buffered exactly as the same handler treats it
\* for the same session without a turn, and the frame does not touch the
\* turn.
C28_AudioNotBlockedByTurn ==
  [][/\ (/\ out'.op = "handleAudio"
         /\ sessions[out'.conn] # 0
         /\ InFlightCount("voice", sessions[out'.conn]) > 0)
        => LET o == sessions[out'.conn]
               idle == [sess[o] EXCEPT !.isProcessing = FALSE] IN
           /\ sess'[o] = [AudioHandled(idle, ~out'.wfail)
                            EXCEPT !.isProcessing = sess[o].isProcessing]
           /\ sess'[o].recv = sess[o].recv + 1
           /\ UNCHANGED <<sessions, turns>>
     /\ (/\ out'.op = "onMedia"
         /\ calls[out'.conn] # 0
         /\ InFlightCount("call", calls[out'.conn]) > 0)
        => LET k == calls[out'.conn]
               f == call[k].recv + 1 IN
           /\ call'[k].recv = f
           /\ UNCHANGED <<calls, wavWriters, turns>>
           /\ ~out'.wfail =>
                /\ wavWriters[out'.conn] # 0 => call'[k].rec = Deliver(call[k].rec, f)
                /\ IF call[k].dg /\ call[k].dgOpen
                   THEN call'[k].sent = Deliver(call[k].sent, f)
                   ELSE call'[k].buf = PushFrame(call[k].buf, f, call[k].maxBuf)]_vars

\* a frame of a playground session was recorded and sent for transcription
\* while the session's turn is waiting for its generation or synthesis call
C28_Witness ==
  /\ out.op = "handleAudio" /\ out.wrote /\ out.dg # <<>>
  /\ sessions[out.conn] # 0
  /\ sess[sessions[out.conn]].isProcessing
  /\ InFlightCount("voice", sessions[out.conn]) > 0
  /\ sess[sessions[out.conn]].sent # <<>>

\* C30: every error of a turn is caught at the turn's boundary. No step of a
\* turn (a generation or synthesis call that fails, in the telephony gateway
\* or in the playground service) ends with an exception or rejection that
\* leaves the transcript handler uncaught.
C30_TurnErrorsCaught ==
  out.op \in {"GenerationFailed", "StreamFailed", "FallbackFailed",
              "TtsFailed", "SaveAudioFailed"} => ~out.uncaught

\* C31: calls are isolated. A step that belongs to one stream (start, audio
\* frame, transcript, a failed or completed generation or synthesis, stop)
\* leaves every other registered stream in both registries, with its call
\* object, its connection and its turns unchanged.
C31_CallsIsolated ==
  [][\A r \in Streams :
       (r # out'.conn /\ calls[r] # 0)
         => /\ calls'[r] = calls[r]
            /\ wavWriters'[r] = wavWriters[r]
            /\ call'[calls[r]] = call[calls[r]]
            /\ conn'[r] = conn[r]
            /\ \A t \in Active : t.conn = r => turns'[t] = turns[t]]_vars

\* C32: muLawDecodeByte is total and range-safe. Every byte 0..255 written
\* to the recording yields a sample, and the sample lies in the signed 16-bit
\* range -32768..32767.
C32_DecodeTotalInRange ==
  /\ Len(pcm.samples) = Len(pcm.bytes)
  /\ \A i \in 1..Len(pcm.bytes) :
       /\ pcm.samples[i] \in Int
       /\ pcm.samples[i] >= -32768 /\ pcm.samples[i] <= 32767

\* the byte 0x00, whose sample has the largest magnitude, was decoded
C32_Witness ==
  /\ pcm.bytes # <<>>
  /\ pcm.bytes[1] = 0 /\ pcm.samples[1] = -32124

\* bit i of a byte
Bit(c, i) == (c \div (2 ^ i)) % 2

\* the reference expansion of a byte: c is the byte with every bit inverted
MuLawReference(b) ==
  LET c == (1 - Bit(b, 0)) + 2 * (1 - Bit(b, 1))
           + 4 * (1 - Bit(b, 2)) + 8 * (1 - Bit(b, 3)) + 16 * (1 - Bit(b, 4))
           + 32 * (1 - Bit(b, 5)) + 64 * (1 - Bit(b, 6)) + 128 * (1 - Bit(b, 7))
      exponent == Bit(c, 4) + 2 * Bit(c, 5) + 4 * Bit(c, 6)
      mantissa == Bit(c, 0) + 2 * Bit(c, 1) + 4 * Bit(c, 2) + 8 * Bit(c, 3)
      magnitude == ((mantissa * 8 + 132) * (2 ^ exponent)) - 132
      signed == IF Bit(c, 7) = 1 THEN 0 - magnitude ELSE magnitude IN
  IF signed > 32767 THEN 32767 ELSE IF signed < -32768 THEN -32768 ELSE signed

\* C33: for every byte b, muLawDecodeByte(b) equals the reference expansion:
\* invert the bits, take exponent (bits 4-6) and mantissa (bits 0-3),
\* magnitude (((mantissa << 3) + 0x84) << exponent) - 0x84, negated when bit
\* 7 is set, clamped to the signed 16-bit range.
C33_DecodeIsReferenceExpansion ==
  \A i \in 1..Len(pcm.bytes) : pcm.samples[i] = MuLawReference(pcm.bytes[i])

\* the byte 0x80 (positive, exponent 7, mantissa 15) was decoded
C33_Witness ==
  /\ pcm.bytes # <<>>
  /\ pcm.bytes[1] = 128 /\ pcm.samples[1] = 32124

\* b XOR 0x80
Xor80(b) == IF b >= 128 THEN b - 128 ELSE b + 128

\* C38: the clamp in muLawDecodeByte is never active. For every byte the
\* sample before the clamp has a magnitude of at most 32124 and is the
\* sample returned, the bytes 0xFF and 0x7F decode to 0, and
\* decode(b XOR 0x80) = -decode(b).
C38_ClampNeverActive ==
  \A i \in 1..Len(pcm.bytes) :
    LET b == pcm.bytes[i] IN
    /\ muLawSample(b) <= 32124 /\ muLawSample(b) >= -32124
    /\ pcm.samples[i] = muLawSample(b)
    /\ b \in {255, 127} => pcm.samples[i] = 0
    /\ muLawDecodeByte(Xor80(b)) = 0 - pcm.samples[i]

\* the byte 0x7F (the negative zero code) was decoded
C38_Witness ==
  /\ pcm.bytes # <<>>
  /\ pcm.bytes[1] = 127 /\ pcm.samples[1] = 0

\* the chunks of a stream that were not empty, in the order they were read
NonEmptyChunks(reads) ==
  SelectSeq([i \in 1..Len(reads) |-> i], LAMBDA i : reads[i])

\* C34: in a streaming synthesis that completes without error the chunk
\* messages are sent in the order the chunks were produced, each non-empty
\* chunk exactly once; the final marker is sent exactly once and after every
\* chunk message of the turn; the session stays Busy while the stream runs
\* and stops being Busy at the final marker.
C34_StreamInOrderThenFinal ==
  /\ [](\A t \in Active :
         (t.kind = "voice" /\ t.pc = "stream")
           => /\ t.log = NonEmptyChunks(t.reads)
              /\ sess[t.sess].isProcessing)
  /\ [][out'.op = "StreamFinal"
         => \E t \in Resumed :
              /\ t.pc = "stream"
              /\ t.log = NonEmptyChunks(t.reads)
              /\ out'.msgs = <<"bot_audio_final">>
              /\ \A u \in BagToSet(turns') :
                   ~(u.sess = t.sess /\ u.pc = "stream")
              /\ sess[t.sess].isProcessing
              /\ ~sess'[t.sess].isProcessing]_vars

\* a stream of two non-empty chunks has just sent its final marker
C34_Witness ==
  /\ out.op = "StreamFinal" /\ out.msgs = <<"bot_audio_final">>
  /\ sessions[out.conn] # 0
  /\ sess[sessions[out.conn]].audioChunks = <<1, 2>>
  /\ ~sess[sessions[out.conn]].isProcessing

\* C35: the reply text sent to the client and passed to synthesis in a
\* transcript-driven turn is never empty: when greeting stripping and
\* trimming leave an empty string, the default reply is used.
C35_ReplyNeverEmpty ==
  bot.turn >= 1
    => /\ bot.text # <<>>
       /\ Trim(bot.text) # <<>>
       /\ LET left == Trim(IF bot.turn >= 2 THEN StripGreetings(bot.raw)
                                             ELSE bot.raw) IN
          bot.text = IF left = <<>> THEN DefaultReply ELSE left

\* on a later turn generation returned only a greeting and white space, and
\* the default reply was sent
C35_Witness ==
  /\ bot.turn = 2
  /\ bot.raw = <<"H", ".", " ">>
  /\ bot.text = DefaultReply

\* C36: the has-greeted flag of a session starts false, becomes true
\* exactly when a generation call of the session succeeds (so at the first
\* that succeeds), never returns to false, and is left unchanged by a turn
\* whose generation fails.
C36_HasGreetedMonotonic ==
  [][/\ \A o \in DOMAIN sess' : o \notin DOMAIN sess => ~sess'[o].hasGreeted
     /\ \A o \in DOMAIN sess :
          /\ sess[o].hasGreeted => sess'[o].hasGreeted
          /\ (~sess[o].hasGreeted /\ sess'[o].hasGreeted)
               => /\ out'.op = "GenerationDone"
                  /\ \E t \in Resumed : t.sess = o /\ t.pc = "gen"
          /\ (out'.op = "GenerationDone"
                /\ \E t \in Resumed : t.kind = "voice" /\ t.sess = o)
               => sess'[o].hasGreeted
          /\ out'.op = "GenerationFailed"
               => sess'[o].hasGreeted = sess[o].hasGreeted]_vars

\* the first turn of a session failed at generation and left the flag
\* false
C36_Witness ==
  /\ out.op = "GenerationFailed"
  /\ sessions[out.conn] # 0
  /\ ~sess[sessions[out.conn]].hasGreeted
  /\ ~sess[sessions[out.conn]].isProcessing

\* C37: the two registries of the telephony gateway stay consistent. After
\* every handler step a stream has an entry in calls if and only if it has
\* one in wavWriters, and the writer of the call entry is the writer
\* registered in wavWriters for the stream.
C37_RegistriesConsistent ==
  \A s \in DOMAIN calls :
    /\ (calls[s] # 0) <=> (wavWriters[s] # 0)
    /\ calls[s] # 0
         => /\ wavWriters[s] = calls[s]
            /\ call[calls[s]].streamSid = s
            /\ call[calls[s]].wavWriter = "open"

\* a stream was started after a stop had removed a stream from both
\* registries
C37_Witness ==
  /\ out.op = "onStart"
  /\ calls[out.conn] # 0 /\ wavWriters[out.conn] = calls[out.conn]
  /\ \E k \in DOMAIN call : call[k].wavWriter = "ended"

====
